---- MODULE Spec2Model ----
(***************************************************************************)
(* A model of the Gemini-in-Chrome agent: the session log (Session in      *)
(* cli.ts), the retry helper (withRetry), the agent orchestrator (CLI),    *)
(* the tool router (executeTool) and the browser session manager           *)
(* (ChromeClient).  Strings are sequences of characters, so that the JSON  *)
(* encoding of the log and the parsing of error messages are computed and  *)
(* not assumed.                                                            *)
(***************************************************************************)
EXTENDS Integers, Sequences, FiniteSets, TLC

VARIABLES
  \* Session: this.entries, the text of the log file, whether load() has
  \* run on the current Session object, the clock read by append.
  entries, logFile, sessLoaded, wallClock,
  \* History: every entry ever handed to Session.append for this session
  \* id, and the number of restarts so far.
  appended, restarts,
  \* GeminiClient/CLI: this.chat and the number of ChatSessions created.
  chat, chatSeq,
  \* CLI: the fields of the CLI object and of its readline interface; the
  \* calls of sendToGemini, each with the place it is suspended at; the
  \* memory file; the seconds since the last Ctrl+C (0, or the two seconds
  \* of the double Ctrl+C window once they have passed).
  cli, th, memoryLog, sinceCtrlC,
  \* What the environment has done so far (inputs, signals, faults).
  env,
  \* The browser: its open tabs in the order it lists them, and every tab
  \* id it has used.  ChromeClient: this.client, this.currentTab, and the
  \* number of connections made so far.  lastOp: what the last call of
  \* executeTool did.
  tabs, everTabs, client, currentTab, connSeq, lastOp,
  \* The connections to the browser whose WebSocket is open, held by the
  \* ChromeClient or not.
  openConns,
  \* The document of the attached tab, its elements in document order, and
  \* what the last click or type on it did.
  page, domOp,
  \* The entries Memory.save was called with, in order.
  memSaved

sessVars == <<entries, logFile, sessLoaded, wallClock, appended, restarts>>

cliVars == <<chat, chatSeq, cli, th, memoryLog, sinceCtrlC, env>>

chromeVars == <<tabs, everTabs, client, currentTab, connSeq, lastOp, openConns>>

domVars == <<page, domOp>>

vars == <<sessVars, cliVars, chromeVars, domVars, memSaved>>

\* ------------------------------------------------------------------ bounds

\* Entries appended in one run of the session specification.
MaxLog == 3
\* Process restarts (new Session + load) in one run of the session specification.
MaxRestarts == 2
\* Values of the wall clock read by Session.append (one digit).
MaxClock == 1
\* Length of the entry sequences handed to toGeminiHistory.
MaxHist == 5
\* config.contextTurns (CONTEXT_TURNS, default 50), kept small so that the
\* window of recentEntries is exceeded by the logs of the model.
ContextTurns == 2
\* Calls of sendToGemini (user turns) in one run of the agent.
MaxTurns == 2

\* ------------------------------------------------------------- characters

QUOTE == "\""
BACKSLASH == "\\"
NEWLINE == "\n"

DigitChars == <<"0", "1", "2", "3", "4", "5", "6", "7", "8", "9">>

DigitChar(n) == DigitChars[(n % 10) + 1]

IsDigit(c) == \E i \in 1..10 : DigitChars[i] = c

DigitVal(c) == (CHOOSE i \in 1..10 : DigitChars[i] = c) - 1

\* s.includes(sub) on character sequences.
Includes(s, sub) ==
  \E i \in 1..(Len(s) - Len(sub) + 1) : SubSeq(s, i, i + Len(sub) - 1) = sub

\* s.startsWith(sub) on character sequences.
StartsWith(s, sub) ==
  Len(s) >= Len(sub) /\ SubSeq(s, 1, Len(sub)) = sub

IsPrefix(s, t) == Len(s) <= Len(t) /\ SubSeq(t, 1, Len(s)) = s

Last(s) == s[Len(s)]

\* s.slice(-n)
SliceLast(s, n) == IF Len(s) <= n THEN s ELSE SubSeq(s, Len(s) - n + 1, Len(s))

\* ------------------------------------------------------------------- JSON

\* JSON.stringify of a string value, without the quotes: the quote, the
\* backslash and the line feed are escaped.
RECURSIVE JsonEscapeNoNewline(_)
JsonEscapeNoNewline(s) ==
  IF s = <<>> THEN <<>>
  ELSE LET c == Head(s) IN
       (IF c = QUOTE THEN <<BACKSLASH, QUOTE>>
        ELSE IF c = BACKSLASH THEN <<BACKSLASH, BACKSLASH>>
        ELSE <<c>>) \o JsonEscapeNoNewline(Tail(s))

RECURSIVE JsonEscape(_)
JsonEscape(s) ==
  IF s = <<>> THEN <<>>
  ELSE LET c == Head(s) IN
       (IF c = QUOTE THEN <<BACKSLASH, QUOTE>>
        ELSE IF c = BACKSLASH THEN <<BACKSLASH, BACKSLASH>>
        ELSE IF c = NEWLINE THEN <<BACKSLASH, "n">>
        ELSE <<c>>) \o JsonEscape(Tail(s))

JsonString(s) == <<QUOTE>> \o JsonEscape(s) \o <<QUOTE>>

JsonKey(k) == JsonString(<<k>>) \o <<":">>

NoMetadata == [present |-> FALSE, tool |-> <<>>]

ToolMetadata(name) == [present |-> TRUE, tool |-> <<name>>]

\* A LogEntry; role is one of the five role names, content, timestamp and
\* metadata.tool are character sequences.
LogEntry(role, content, timestamp, metadata) ==
  [role |-> role, content |-> content, timestamp |-> timestamp,
   metadata |-> metadata]

\* JSON.stringify(full) of Session.append: the keys in the order of the
\* object literal {...entry, timestamp}.
Stringify(e) ==
  <<"{">> \o JsonKey("role") \o JsonString(<<e.role>>)
  \o <<",">> \o JsonKey("content") \o JsonString(e.content)
  \o (IF e.metadata.present
      THEN <<",">> \o JsonKey("metadata") \o <<"{">> \o JsonKey("tool")
           \o JsonString(e.metadata.tool) \o <<"}">>
      ELSE <<>>)
  \o <<",">> \o JsonKey("timestamp") \o JsonString(e.timestamp)
  \o <<"}">>

ParseFail == [ok |-> FALSE, val |-> <<>>, next |-> 0]

\* The characters of a JSON string from position i (after the opening quote)
\* up to the closing quote, unescaped.
RECURSIVE ScanString(_, _, _)
ScanString(s, i, acc) ==
  IF i > Len(s) THEN ParseFail
  ELSE IF s[i] = QUOTE THEN [ok |-> TRUE, val |-> acc, next |-> i + 1]
  ELSE IF s[i] = BACKSLASH
       THEN IF i + 1 > Len(s) THEN ParseFail
            ELSE IF s[i + 1] = "n"
                 THEN ScanString(s, i + 2, Append(acc, NEWLINE))
            ELSE IF s[i + 1] \in {QUOTE, BACKSLASH}
                 THEN ScanString(s, i + 2, Append(acc, s[i + 1]))
            ELSE ParseFail
  ELSE IF s[i] = NEWLINE THEN ParseFail
  ELSE ScanString(s, i + 1, Append(acc, s[i]))

ParseString(s, i) ==
  IF i <= Len(s) /\ s[i] = QUOTE THEN ScanString(s, i + 1, <<>>) ELSE ParseFail

\* The members "key":"string" of a flat JSON object from position i (after
\* the opening brace) up to the closing brace, as a sequence of <<key, value>>.
RECURSIVE ParseMembers(_, _, _)
ParseMembers(s, i, acc) ==
  LET k == ParseString(s, i) IN
  IF ~k.ok \/ k.next > Len(s) \/ s[k.next] # ":" THEN ParseFail
  ELSE LET v == ParseString(s, k.next + 1) IN
       IF ~v.ok \/ v.next > Len(s) THEN ParseFail
       ELSE LET got == Append(acc, <<k.val, v.val>>) IN
            IF s[v.next] = "}" THEN [ok |-> TRUE, val |-> got, next |-> v.next + 1]
            ELSE IF s[v.next] = "," THEN ParseMembers(s, v.next + 1, got)
            ELSE ParseFail

HasMember(ms, k) == \E j \in 1..Len(ms) : ms[j][1] = <<k>>

\* The last member of that name wins, as in JSON.parse.
Member(ms, k) ==
  ms[CHOOSE j \in 1..Len(ms) :
       ms[j][1] = <<k>> /\ \A l \in (j + 1)..Len(ms) : ms[l][1] # <<k>>][2]

\* The members of a log line, the nested metadata object read where it
\* stands: [ok, top, meta, hasMeta, next].
RECURSIVE ParseEntryMembers(_, _, _, _, _)
ParseEntryMembers(s, i, top, meta, hasMeta) ==
  LET k == ParseString(s, i)
      bad == [ok |-> FALSE, top |-> <<>>, meta |-> <<>>, hasMeta |-> FALSE, next |-> 0]
      After(j, t, m, h) ==
        IF j > Len(s) THEN bad
        ELSE IF s[j] = "}"
             THEN [ok |-> TRUE, top |-> t, meta |-> m, hasMeta |-> h, next |-> j + 1]
        ELSE IF s[j] = "," THEN ParseEntryMembers(s, j + 1, t, m, h)
        ELSE bad
  IN IF ~k.ok \/ k.next + 1 > Len(s) \/ s[k.next] # ":" THEN bad
     ELSE IF s[k.next + 1] = "{"
          THEN LET o == ParseMembers(s, k.next + 2, <<>>) IN
               IF ~o.ok THEN bad
               ELSE IF k.val = <<"metadata">> THEN After(o.next, top, o.val, TRUE)
               ELSE After(o.next, top, meta, hasMeta)
     ELSE LET v == ParseString(s, k.next + 1) IN
          IF ~v.ok THEN bad
          ELSE After(v.next, Append(top, <<k.val, v.val>>), meta, hasMeta)

\* JSON.parse of one log line: [ok, entry]; ok is FALSE where JSON.parse throws.
ParseLine(line) ==
  LET none == [ok |-> FALSE, entry |-> LogEntry("", <<>>, <<>>, NoMetadata)] IN
  IF Len(line) < 2 \/ line[1] # "{" THEN none
  ELSE LET p == ParseEntryMembers(line, 2, <<>>, <<>>, FALSE) IN
       IF ~p.ok \/ p.next # Len(line) + 1 THEN none
       ELSE IF ~(HasMember(p.top, "role") /\ HasMember(p.top, "content")
                 /\ HasMember(p.top, "timestamp")
                 /\ Len(Member(p.top, "role")) = 1)
            THEN none
       ELSE [ok |-> TRUE,
             entry |->
               LogEntry(Member(p.top, "role")[1], Member(p.top, "content"),
                        Member(p.top, "timestamp"),
                        IF p.hasMeta /\ HasMember(p.meta, "tool")
                        THEN [present |-> TRUE, tool |-> Member(p.meta, "tool")]
                        ELSE NoMetadata)]

IsBlank(line) == \A j \in 1..Len(line) : line[j] \in {" ", NEWLINE}

\* raw.split("\n"): the lines of a text, without the separators.
SplitLines(s) ==
  LET breaks == {i \in 1..Len(s) : s[i] = NEWLINE}
      \* the k-th separator; 0 before the first, Len(s) + 1 after the last
      Break(k) ==
        IF k = 0 THEN 0
        ELSE IF k > Cardinality(breaks) THEN Len(s) + 1
        ELSE CHOOSE p \in breaks : Cardinality({q \in breaks : q < p}) = k - 1
  IN [k \in 1..(Cardinality(breaks) + 1) |->
        SubSeq(s, Break(k - 1) + 1, Break(k) - 1)]

\* String.prototype.trim on the characters of the model.
Trim(s) ==
  LET solid == {i \in 1..Len(s) : s[i] \notin {" ", NEWLINE}} IN
  IF solid = {} THEN <<>>
  ELSE SubSeq(s, CHOOSE i \in solid : \A j \in solid : i <= j,
                 CHOOSE i \in solid : \A j \in solid : i >= j)

\* The loop of Session.load over the lines: blank and malformed lines are skipped.
RECURSIVE ParseLines(_)
ParseLines(lines) ==
  IF lines = <<>> THEN <<>>
  ELSE LET p == ParseLine(Head(lines)) IN
       (IF IsBlank(Head(lines)) \/ ~p.ok THEN <<>> ELSE <<p.entry>>)
       \o ParseLines(Tail(lines))

\* What Session.load leaves in this.entries, given the entries held before
\* and the text of the log file.
LoadedEntries(before, file) ==
  LET raw == Trim(file) IN
  IF raw = <<>> THEN before ELSE ParseLines(SplitLines(raw))

\* ---------------------------------------------------------------- Session

\* new Date().toISOString(), one digit of the clock standing for the instant.
ISO(now) == <<"T", DigitChar(now)>>

\* this.entries.push(full)
PushEntryFront(es, full) == <<full>> \o es

PushEntry(es, full) == Append(es, full)

\* appendFileSync(this.logPath, JSON.stringify(full) + "\n")
AppendFile(file, full) == file \o Stringify(full) \o <<NEWLINE>>

RECURSIVE PushAll(_, _)
PushAll(es, fulls) ==
  IF fulls = <<>> THEN es ELSE PushAll(PushEntry(es, Head(fulls)), Tail(fulls))

RECURSIVE AppendFileAll(_, _)
AppendFileAll(file, fulls) ==
  IF fulls = <<>> THEN file
  ELSE AppendFileAll(AppendFile(file, Head(fulls)), Tail(fulls))

\* Session.append called once for each of the partial entries
\* [role, content, metadata], in order.
SessionAppend(partials) ==
  LET fulls == [i \in 1..Len(partials) |->
                  LogEntry(partials[i].role, partials[i].content,
                           ISO(wallClock), partials[i].metadata)]
  IN /\ entries' = PushAll(entries, fulls)
     /\ logFile' = AppendFileAll(logFile, fulls)
     /\ appended' = appended \o fulls

Partial(role, content) ==
  [role |-> role, content |-> content, metadata |-> NoMetadata]

PartialTool(role, content, tool) ==
  [role |-> role, content |-> content, metadata |-> ToolMetadata(tool)]

Roles == {"user", "model", "tool_call", "tool_result", "system"}

\* Entries appended in the session specification: every role, plain text,
\* text holding the characters JSON escapes, the empty text, and metadata.
EntrySamples ==
  { Partial("system", <<"a">>),
    Partial("user", <<"a", NEWLINE, QUOTE>>),
    Partial("model", <<BACKSLASH, "n">>),
    Partial("tool_call", <<"{", QUOTE, "a", QUOTE, "}">>),
    PartialTool("tool_result", <<>>, "chrome_click"),
    PartialTool("tool_result", <<NEWLINE>>, QUOTE) }

\* ------------------------------------------------------ history for the model

\* config.contextTurns * 2
MaxEntries == ContextTurns * 2

\* Session.recentEntries
RecentEntries(es) ==
  IF Len(es) <= MaxEntries THEN es
  ELSE (IF es[1].role = "system" THEN <<es[1]>> ELSE <<>>)
       \o SubSeq(es, Len(es) - MaxEntries + 1, Len(es))

Block(role, text) == [role |-> role, parts |-> <<text>>]

\* The first loop of toGeminiHistory: one block per entry, none for a
\* system entry.
RECURSIVE MapEntries(_)
MapEntries(es) ==
  IF es = <<>> THEN <<>>
  ELSE LET e == Head(es) IN
       (IF e.role = "user" THEN <<Block("user", e.content)>>
        ELSE IF e.role = "model" THEN <<Block("model", e.content)>>
        ELSE IF e.role = "tool_call"
             THEN <<Block("model", <<"[Tool Call] ">> \o e.content)>>
        ELSE IF e.role = "tool_result"
             THEN <<Block("user", <<"[Tool Result] ">> \o e.content)>>
        ELSE <<>>) \o MapEntries(Tail(es))

\* while (history.length > 0 && history[0].role === "model") history.shift()
DropLeadingModel(h) ==
  LET keep == {i \in 1..Len(h) : h[i].role # "model"} IN
  IF keep = {} THEN <<>>
  ELSE SubSeq(h, CHOOSE i \in keep : \A j \in keep : i <= j, Len(h))

\* The merge loop of toGeminiHistory, without the merge.
RECURSIVE MergeNothing(_, _)
MergeNothing(h, merged) ==
  IF h = <<>> THEN merged ELSE MergeNothing(Tail(h), Append(merged, Head(h)))

\* A merge loop in which a block of the role of the last merged block
\* replaces its parts.
RECURSIVE MergeKeepsLast(_, _)
MergeKeepsLast(h, merged) ==
  IF h = <<>> THEN merged
  ELSE LET b == Head(h) IN
       IF merged # <<>> /\ Last(merged).role = b.role
       THEN MergeKeepsLast(Tail(h), [merged EXCEPT ![Len(merged)].parts = b.parts])
       ELSE MergeKeepsLast(Tail(h), Append(merged, b))

\* The merge loop of toGeminiHistory: a block of the role of the last
\* merged block adds its parts to it.
RECURSIVE MergeSameRole(_, _)
MergeSameRole(h, merged) ==
  IF h = <<>> THEN merged
  ELSE LET b == Head(h) IN
       IF merged # <<>> /\ Last(merged).role = b.role
       THEN MergeSameRole(Tail(h),
              [merged EXCEPT ![Len(merged)].parts = @ \o b.parts])
       ELSE MergeSameRole(Tail(h), Append(merged, b))

\* A toGeminiHistory that keeps the user blocks at the end.
KeepTrailingUser(h) == h

\* while (merged.length > 0 && last.role === "user") merged.pop()
DropTrailingUser(h) ==
  LET keep == {i \in 1..Len(h) : h[i].role # "user"} IN
  IF keep = {} THEN <<>>
  ELSE SubSeq(h, 1, CHOOSE i \in keep : \A j \in keep : i >= j)

\* Session.toGeminiHistory
ToGeminiHistory(es) ==
  DropTrailingUser(
    MergeSameRole(DropLeadingModel(MapEntries(RecentEntries(es))), <<>>))

\* A ChatSession: which one it is, the history it was started with and the
\* number of exchanges completed in it; this.chat = null is NullChat.
NullChat == [live |-> FALSE, id |-> 0, history |-> <<>>, sent |-> 0]

\* GeminiClient.startChat(history)
StartChat(history) == [live |-> TRUE, id |-> 0, history |-> history, sent |-> 0]

\* The ChatSession created after seq others.
Numbered(session, seq) == [session EXCEPT !.id = seq + 1]

\* -------------------------------------------------------------- withRetry

S429 == <<"4", "2", "9">>
SQuota == <<"q", "u", "o", "t", "a">>
SResourceExhausted ==
  <<"R", "e", "s", "o", "u", "r", "c", "e", " ",
    "e", "x", "h", "a", "u", "s", "t", "e", "d">>
SInvalidArgument ==
  <<"I", "N", "V", "A", "L", "I", "D", "_",
    "A", "R", "G", "U", "M", "E", "N", "T">>
SHistory == <<"h", "i", "s", "t", "o", "r", "y">>
SApiKey == <<"A", "P", "I", "_", "K", "E", "Y">>
S403 == <<"4", "0", "3">>
SRetry == <<"r", "e", "t", "r", "y">>

\* The default of withRetry's maxRetries parameter.
MaxRetries == 5

\* The cooldown of the rate-limit recovery of sendToGemini, in seconds.
RecoveryCooldownSec == 30

\* The letters the pattern of withRetry reads, lowered (the i flag).
Lower(c) ==
  CASE c = "R" -> "r" [] c = "E" -> "e" [] c = "T" -> "t"
    [] c = "Y" -> "y" [] c = "S" -> "s" [] OTHER -> c

\* String(n): the decimal digits of a natural number.
RECURSIVE Digits(_)
Digits(n) ==
  IF n >= 10 THEN Append(Digits(n \div 10), DigitChar(n)) ELSE <<DigitChar(n)>>

\* How the model API writes a delay given in tenths of a second: "7s", "7.5s".
FormatSeconds(tenths) ==
  Digits(tenths \div 10)
  \o (IF tenths % 10 = 0 THEN <<>> ELSE <<".", DigitChar(tenths % 10)>>)
  \o <<"s">>

\* The length of the run of digits of s from position q.
DigitRun(s, q) ==
  LET ks == {k \in 0..(Len(s) - q + 1) : \A j \in q..(q + k - 1) : IsDigit(s[j])}
  IN CHOOSE k \in ks : \A l \in ks : k >= l

\* Whether \.?\d*s matches at position q.
TailMatches(s, q) ==
  \E d \in {0, 1} :
    /\ d = 1 => (q <= Len(s) /\ s[q] = ".")
    /\ \E k \in 0..DigitRun(s, q + d) :
         q + d + k <= Len(s) /\ Lower(s[q + d + k]) = "s"

\* The lengths of group 1 with which (\d+)\.?\d*s matches at position j.
GroupLengths(s, j) == {m \in 1..DigitRun(s, j) : TailMatches(s, j + m)}

\* msg.match(/retry.*?(\d+)\.?\d*s/i): the leftmost match; .*? takes as
\* little as it can, (\d+) as much as it can: [found, group].
RetryMatch(msg) ==
  LET starts == {i \in 1..(Len(msg) - 4) :
                   [k \in 1..5 |-> Lower(msg[i + k - 1])] = SRetry}
      Ends(i) == {j \in (i + 5)..Len(msg) :
                    /\ \A x \in (i + 5)..(j - 1) : msg[x] # NEWLINE
                    /\ GroupLengths(msg, j) # {}}
      good == {i \in starts : Ends(i) # {}}
  IN IF good = {} THEN [found |-> FALSE, group |-> <<>>]
     ELSE LET i == CHOOSE x \in good : \A y \in good : x <= y
              j == CHOOSE x \in Ends(i) : \A y \in Ends(i) : x <= y
              m == CHOOSE x \in GroupLengths(msg, j) :
                     \A y \in GroupLengths(msg, j) : x >= y
          IN [found |-> TRUE, group |-> SubSeq(msg, j, j + m - 1)]

\* Number(text) of a decimal numeral with at most one fraction digit, in
\* tenths.
RECURSIVE WholeValue(_)
WholeValue(ds) ==
  IF ds = <<>> THEN 0 ELSE 10 * WholeValue(SubSeq(ds, 1, Len(ds) - 1)) + DigitVal(Last(ds))

NumberTenths(text) ==
  IF Len(text) >= 2 /\ text[Len(text) - 1] = "."
  THEN 10 * WholeValue(SubSeq(text, 1, Len(text) - 2)) + DigitVal(Last(text))
  ELSE 10 * WholeValue(text)

\* Math.ceil of a number given in tenths.
MathCeil(tenths) == (tenths + 9) \div 10

\* isRateLimit of withRetry
IsRateLimit(msg) ==
  Includes(msg, S429) \/ Includes(msg, SQuota) \/ Includes(msg, SResourceExhausted)

\* A withRetry whose backoff does not grow with the attempts.
WaitSecFlat(msg, attempt) ==
  LET retryMatch == RetryMatch(msg) IN
  IF retryMatch.found THEN MathCeil(NumberTenths(retryMatch.group)) + 2 ELSE 10

\* waitSec of withRetry
WaitSec(msg, attempt) ==
  LET retryMatch == RetryMatch(msg) IN
  IF retryMatch.found THEN MathCeil(NumberTenths(retryMatch.group)) + 2
  ELSE 10 * (attempt + 1)

\* The errors a call of the model API fails with: the text of err.message
\* and, where the text carries a retry delay, that delay in tenths of a
\* second (-1 where it carries none).
RateLimitError(tenths) ==
  [msg |-> S429 \o <<" ">> \o SRetry \o <<" ", "i", "n", " ">>
           \o FormatSeconds(tenths),
   delay |-> tenths]

ErrorSamples ==
  { RateLimitError(75),
    [msg |-> S429, delay |-> -1],
    [msg |-> SResourceExhausted, delay |-> -1],
    [msg |-> SInvalidArgument, delay |-> -1],
    [msg |-> <<"f", "a", "i", "l">>, delay |-> -1] }

\* ------------------------------------------------------------ executeTool

ToolNames ==
  { "chrome_list_tabs", "chrome_attach", "chrome_navigate",
    "chrome_get_page_text", "chrome_screenshot", "chrome_click",
    "chrome_type", "chrome_scroll", "chrome_press_key", "chrome_wait",
    "read_file", "write_file", "edit_file", "list_files", "search_files",
    "run_command" }

\* What the action behind a tool did: it returned a text, or it threw an
\* error with that message.
Returned(text) == [threw |-> FALSE, text |-> text]

Threw(message) == [threw |-> TRUE, text |-> message]

\* executeTool without its try/catch.
ExecuteToolNoCatch(functionName, outcome) ==
  IF functionName \notin ToolNames
  THEN [rejected |-> FALSE, text |-> <<"Unknown tool: ", functionName>>]
  ELSE [rejected |-> outcome.threw, text |-> outcome.text]

\* executeTool: the promise it returns settles with [rejected, text].
ExecuteTool(functionName, outcome) ==
  IF functionName \notin ToolNames
  THEN [rejected |-> FALSE, text |-> <<"Unknown tool: ", functionName>>]
  ELSE IF outcome.threw
       THEN [rejected |-> FALSE,
             text |-> <<"Tool error (", functionName, "): ">> \o outcome.text]
  ELSE [rejected |-> FALSE, text |-> outcome.text]

\* ----------------------------------------------------------- ChromeClient

\* this.client = null, this.currentTab = null.  A client: which connection
\* it is, the tab it goes to, whether it answers, the domains enabled on it
\* and the number of dialog handlers installed on it.
NoClient ==
  [set |-> FALSE, conn |-> 0, target |-> 0, alive |-> FALSE, domains |-> {},
   handlers |-> 0]

NoTab == [set |-> FALSE, id |-> 0, url |-> <<>>]

\* The connection CDP({target}) makes, after n others.
Connection(n, target) ==
  [set |-> TRUE, conn |-> n + 1, target |-> target, alive |-> TRUE, domains |-> {},
   handlers |-> 0]

\* An enabling that leaves the DOM domain out.
EnableDomainsPartly(cl) == [cl EXCEPT !.domains = {"Page", "Runtime"}]

\* client.Page.enable(), client.Runtime.enable(), client.DOM.enable()
EnableDomains(cl) == [cl EXCEPT !.domains = {"Page", "Runtime", "DOM"}]

\* setupDialogHandler(client): one more listener of
\* Page.javascriptDialogOpening that accepts the dialog.
SetupDialogHandler(cl) == [cl EXCEPT !.handlers = @ + 1]

\* The TabInfo listTabs gives for the tab id; url stands for its title and
\* url.
TabInfo(id) == [set |-> TRUE, id |-> id, url |-> <<"about:blank">>]

\* A ChromeClient: [client, currentTab, connSeq].
ChromeState(cl, tab, n) == [client |-> cl, currentTab |-> tab, connSeq |-> n]

\* What a call of ChromeClient did: whether it threw, its text or the
\* message of its error, the ChromeClient it leaves, and how it went:
\* the result of the liveness probe, the tab list it fetched, the tab it
\* chose to reconnect to, the connection the action ran on, the connection
\* it closed with client.close() and the connection it opened and left
\* open (0 for none); for wait, the ms it was asked for and the ms its
\* timer ran; for attach, the tab it was asked for; for navigate, how the
\* wait for the load event ended and what the evaluation of title and url
\* did.
NoTrace ==
  [probe |-> "none", listed |-> FALSE, list |-> <<>>, target |-> 0,
   reconnected |-> FALSE, ranOn |-> 0, closed |-> 0, opened |-> 0,
   asked |-> [nan |-> FALSE, n |-> 0], waited |-> 0,
   tab |-> [num |-> TRUE, v |-> 0], load |-> "none", evaluated |-> "none"]

Done(threw, text, st, trace) ==
  [threw |-> threw, text |-> text, st |-> st, trace |-> trace]

\* tabs[0], the reconnection target of a manager that ignores the id.
FirstTab(list, tabId) ==
  IF list # <<>> THEN [found |-> TRUE, id |-> list[1]] ELSE [found |-> FALSE, id |-> 0]

\* tabs.find((t) => t.id === tabId), else tabs[0]
ReconnectTarget(list, tabId) ==
  IF \E i \in 1..Len(list) : list[i] = tabId THEN [found |-> TRUE, id |-> tabId]
  ELSE IF list # <<>> THEN [found |-> TRUE, id |-> list[1]]
  ELSE [found |-> FALSE, id |-> 0]

CannotConnect == <<"Cannot connect to Chrome on ", "localhost:9222", ".">>

LostPrefix == <<"Lost connection to Chrome tab and could not reconnect: ">>

\* An ensureConnected that connects anew whatever the probe says.
EnsureConnectedAnew(st, w) ==
  IF ~st.client.set
  THEN Done(TRUE,
            <<"Not connected to any Chrome tab. Use chrome_list_tabs and chrome_attach first.">>,
            st, NoTrace)
  ELSE Done(FALSE, <<>>,
            ChromeState(SetupDialogHandler(EnableDomains(
                          Connection(st.connSeq, st.client.target))),
                        st.currentTab, st.connSeq + 1),
            [NoTrace EXCEPT !.probe = IF st.client.alive THEN "ok" ELSE "failed",
                            !.ranOn = st.connSeq + 1, !.opened = st.connSeq + 1])

\* A failed reconnection that leaves the client and the tab in place.
LostKeeps(st) == st

\* The catch of a failed reconnection: this.client = null,
\* this.currentTab = null.
Lost(st) == ChromeState(NoClient, NoTab, st.connSeq)

\* ChromeClient.ensureConnected.  w is what the browser does during the
\* call: the tabs it lists, whether it can be reached, whether the new
\* connection is made, whether its domains are enabled.
EnsureConnected(st, w) ==
  LET lost == Lost(st)
      target == ReconnectTarget(w.tabs, st.currentTab.id)
      failed == [NoTrace EXCEPT !.probe = "failed"]
      listed == [failed EXCEPT !.listed = TRUE, !.list = w.tabs, !.target = target.id]
  IN
  IF ~st.client.set
  THEN Done(TRUE,
            <<"Not connected to any Chrome tab. Use chrome_list_tabs and chrome_attach first.">>,
            st, NoTrace)
  ELSE IF st.client.alive
  THEN Done(FALSE, <<>>, st, [NoTrace EXCEPT !.probe = "ok", !.ranOn = st.client.conn])
  ELSE IF ~st.currentTab.set
  THEN Done(TRUE, <<"Lost connection to Chrome tab. Use /tabs and /attach to reconnect.">>,
            st, failed)
  ELSE IF ~w.reachable
  THEN Done(TRUE, LostPrefix \o CannotConnect, lost, failed)
  ELSE IF ~target.found
  THEN Done(TRUE, LostPrefix \o <<"Tab no longer exists">>, lost, listed)
  ELSE IF ~w.connectOk
  THEN Done(TRUE, LostPrefix \o <<"connect ECONNREFUSED">>, lost, listed)
  ELSE IF ~w.enableOk
  THEN Done(TRUE, LostPrefix \o <<"WebSocket is not open">>,
            Lost([st EXCEPT !.connSeq = @ + 1]), listed)
  ELSE Done(FALSE, <<>>,
            ChromeState(SetupDialogHandler(EnableDomains(Connection(st.connSeq, target.id))),
                        TabInfo(target.id), st.connSeq + 1),
            [listed EXCEPT !.reconnected = TRUE, !.ranOn = st.connSeq + 1,
                           !.opened = st.connSeq + 1])

\* ChromeClient.detach
Detach(st) ==
  IF st.client.set THEN ChromeState(NoClient, NoTab, st.connSeq) ELSE st

\* The tab attach is asked for: tabs[tabIdOrIndex] for a number (num), the
\* tab of that id for a string.
ResolveTab(list, tabIdOrIndex) ==
  IF tabIdOrIndex.num
  THEN IF tabIdOrIndex.v + 1 \in 1..Len(list)
       THEN [found |-> TRUE, id |-> list[tabIdOrIndex.v + 1]]
       ELSE [found |-> FALSE, id |-> 0]
  ELSE IF \E i \in 1..Len(list) : list[i] = tabIdOrIndex.v
       THEN [found |-> TRUE, id |-> tabIdOrIndex.v]
       ELSE [found |-> FALSE, id |-> 0]

\* An attach that detaches before it looks for the tab.
AttachDetachesFirst(st, w, tabIdOrIndex) ==
  LET tab == ResolveTab(w.tabs, tabIdOrIndex)
      detached == [NoTrace EXCEPT !.closed = st.client.conn, !.tab = tabIdOrIndex,
                                  !.listed = w.reachable,
                                  !.list = IF w.reachable THEN w.tabs ELSE <<>>]
  IN IF ~w.reachable \/ ~tab.found \/ ~w.connectOk \/ ~w.enableOk
     THEN Done(TRUE, <<"Tab not found. Available tabs:">>, Detach(st), detached)
     ELSE Done(FALSE, <<"Attached to: ", DigitChar(tab.id)>>,
               ChromeState(SetupDialogHandler(EnableDomains(Connection(st.connSeq, tab.id))),
                           TabInfo(tab.id), st.connSeq + 1),
               [detached EXCEPT !.target = tab.id, !.ranOn = st.connSeq + 1,
                                !.opened = st.connSeq + 1])

\* ChromeClient.attach(tabIdOrIndex); detached is the trace after
\* this.detach().  Where enabling the domains fails the new connection has
\* lost its WebSocket.
Attach(st, w, tabIdOrIndex) ==
  LET asked == [NoTrace EXCEPT !.tab = tabIdOrIndex]
      listed == [asked EXCEPT !.listed = TRUE, !.list = w.tabs]
      tab == ResolveTab(w.tabs, tabIdOrIndex)
      detached == [listed EXCEPT !.closed = st.client.conn, !.target = tab.id]
  IN
  IF ~w.reachable THEN Done(TRUE, CannotConnect, st, asked)
  ELSE IF w.tabs = <<>> THEN Done(TRUE, <<"No tabs found in Chrome.">>, st, listed)
  ELSE IF ~tab.found
  THEN Done(TRUE, <<"Tab not found. Available tabs:">>, st, listed)
  ELSE IF ~w.connectOk
  THEN Done(TRUE, <<"connect ECONNREFUSED">>, Detach(st), detached)
  ELSE IF ~w.enableOk
  THEN Done(TRUE, <<"WebSocket is not open">>,
            ChromeState([Connection(st.connSeq, tab.id) EXCEPT !.alive = FALSE],
                        NoTab, st.connSeq + 1), detached)
  ELSE Done(FALSE, <<"Attached to: ", DigitChar(tab.id)>>,
            ChromeState(SetupDialogHandler(EnableDomains(Connection(st.connSeq, tab.id))),
                        TabInfo(tab.id), st.connSeq + 1),
            [detached EXCEPT !.ranOn = st.connSeq + 1, !.opened = st.connSeq + 1])

\* The tools whose action starts with ensureConnected.
PageTools ==
  { "chrome_navigate", "chrome_get_page_text", "chrome_screenshot",
    "chrome_click", "chrome_type", "chrome_scroll", "chrome_press_key" }

CodingTools ==
  { "read_file", "write_file", "edit_file", "list_files", "search_files",
    "run_command" }

\* The text a page action or a coding tool returns when it succeeds.
Succeeded(name) == <<"ok: ", name>>

\* The text with which an action reports that it failed, for the actions
\* that do.
ReportsFailure(name) ==
  name \in {"chrome_click", "chrome_type", "read_file", "edit_file", "list_files",
            "search_files", "run_command"}

Reported(name) ==
  CASE name \in {"chrome_click", "chrome_type"} ->
         <<"ERROR", ": Could not find element matching: ", QUOTE, "x", QUOTE>>
    [] name = "search_files" -> <<"Search error: ", "spawn ENOENT">>
    [] name = "run_command" -> <<"Exit code: ", "1">>
    [] OTHER -> <<"ERROR", ": File not found: ", "/w/x">>

\* Page actions that do not ask for a connection before they act.
PageActionUnchecked(name, st, w, how) ==
  LET e == EnsureConnected(st, w) IN
  IF e.threw /\ st.client.set THEN e
  ELSE Done(FALSE, Succeeded(name), e.st, e.trace)

\* A page action: ensureConnected, then the action on the client it
\* returns.  how is what the action does then: "ok", "reported" or
\* "threw".
PageAction(name, st, w, how) ==
  LET e == EnsureConnected(st, w) IN
  IF e.threw THEN e
  ELSE IF how = "threw" THEN Done(TRUE, <<"WebSocket is not open">>, e.st, e.trace)
  ELSE IF how = "reported" THEN Done(FALSE, Reported(name), e.st, e.trace)
  ELSE Done(FALSE, Succeeded(name), e.st, e.trace)

\* if (!url.match(/^https?:\/\//)) url = "https://" + url
NormalizeUrl(url) ==
  IF StartsWith(url, <<"http://">>) \/ StartsWith(url, <<"https://">>) THEN url
  ELSE <<"https://">> \o url

\* A navigate for which the timeout of the load event is an error.
NavigateStrict(st, w, url, nav) ==
  LET e == EnsureConnected(st, w) IN
  IF e.threw THEN e
  ELSE IF ~nav.navigated \/ nav.load = "timeout" \/ nav.evaluated = "threw"
  THEN Done(TRUE, <<"timeout">>, e.st,
            [e.trace EXCEPT !.load = IF nav.navigated THEN nav.load ELSE "none"])
  ELSE Done(FALSE, <<"Navigated to: ">> \o NormalizeUrl(url),
            [e.st EXCEPT !.currentTab = [@ EXCEPT !.set = TRUE, !.url = NormalizeUrl(url)]],
            [e.trace EXCEPT !.load = nav.load, !.evaluated = nav.evaluated])

\* ChromeClient.navigate(url).  nav is what the browser does then: whether
\* Page.navigate is answered, whether the load event fires before the
\* 15 s are over, whether the evaluation of title and url is answered, and
\* whether the document it reads is that of the new url already.
Navigate(st, w, url, nav) ==
  LET e == EnsureConnected(st, w)
      href == IF nav.committed THEN NormalizeUrl(url) ELSE e.st.currentTab.url
  IN
  IF e.threw THEN e
  ELSE IF ~nav.navigated THEN Done(TRUE, <<"WebSocket is not open">>, e.st, e.trace)
  ELSE IF nav.evaluated = "threw"
  THEN Done(TRUE, <<"WebSocket is not open">>, e.st, [e.trace EXCEPT !.load = nav.load,
                                                                  !.evaluated = "threw"])
  ELSE Done(FALSE, <<"Navigated to: ">> \o NormalizeUrl(url),
            [e.st EXCEPT !.currentTab = [@ EXCEPT !.set = TRUE, !.url = href]],
            [e.trace EXCEPT !.load = nav.load, !.evaluated = "value"])

\* The cap of chrome_wait, in ms.
MaxWaitMs == 30000

\* Math.min without the cap.
MinLeft(a, b) == a

Min(a, b) == IF a < b THEN a ELSE b

ChromeConstructed ==
  /\ tabs = <<>>
  /\ everTabs = {}
  /\ client = NoClient
  /\ currentTab = NoTab
  /\ connSeq = 0
  /\ openConns = {}
  /\ page = <<>>
  /\ domOp = [name |-> "", d |-> <<>>, el |-> 0, step |-> 0, text |-> <<>>,
              result |-> <<>>, inputs |-> 0, changes |-> 0]
  /\ lastOp = [name |-> "", before |-> ChromeState(NoClient, NoTab, 0),
               done |-> Done(FALSE, <<>>, ChromeState(NoClient, NoTab, 0), NoTrace),
               result |-> [rejected |-> FALSE, text |-> <<>>], failed |-> FALSE]

\* ----------------------------------------------------------------- Memory

\* MAX_RECENT of memory.ts
MAX_RECENT == 10

\* JSON.stringify(full) + "\n" of Memory.save: the keys in the order of the
\* object literal {timestamp, ...entry}.
MemoryLine(timestamp, type, task, summary) ==
  <<"{">> \o JsonKey("timestamp") \o JsonString(timestamp)
  \o <<",">> \o JsonKey("type") \o JsonString(<<type>>)
  \o <<",">> \o JsonKey("task") \o JsonString(task)
  \o <<",">> \o JsonKey("summary") \o JsonString(summary)
  \o <<"}", NEWLINE>>

\* A Memory.save that writes the file anew.
MemorySaveOverwrite(log, type, task, summary) ==
  MemoryLine(ISO(wallClock), type, task, summary)

\* Memory.save: appendFileSync of one line to the memory file, log being
\* the text of the file.
MemorySave(log, type, task, summary) ==
  log \o MemoryLine(ISO(wallClock), type, task, summary)

\* JSON.parse of one line of the memory file: [ok, entry].
ParseMemory(line) ==
  LET p == IF Len(line) >= 2 /\ line[1] = "{" THEN ParseMembers(line, 2, <<>>)
           ELSE ParseFail
      Get(k) == IF HasMember(p.val, k) THEN Member(p.val, k) ELSE <<>>
  IN IF ~p.ok \/ p.next # Len(line) + 1
     THEN [ok |-> FALSE, entry |-> <<>>]
     ELSE [ok |-> TRUE,
           entry |-> [timestamp |-> Get("timestamp"),
                      type |-> IF Len(Get("type")) = 1 THEN Get("type")[1] ELSE "",
                      task |-> Get("task"), summary |-> Get("summary")]]

\* Memory.loadRecent: the last MAX_RECENT of the lines that are not blank,
\* parsed, the malformed ones skipped.
LoadRecent(log) ==
  LET lines == SelectSeq(SplitLines(log), LAMBDA l : ~IsBlank(l))
      start == IF Len(lines) > MAX_RECENT THEN Len(lines) - MAX_RECENT ELSE 0
      parsed == [i \in 1..(Len(lines) - start) |-> ParseMemory(lines[start + i])]
      good == SelectSeq(parsed, LAMBDA q : q.ok)
  IN [i \in 1..Len(good) |-> good[i].entry]

\* Memory.formatForContext: empty without memories, else a text that names
\* their number.
FormatForContext(log) ==
  IF LoadRecent(log) = <<>> THEN <<>>
  ELSE <<"## Recent Memory (">> \o Digits(Len(LoadRecent(log))) \o <<" entries)">>

\* array.join(separator) of texts
RECURSIVE Join(_, _)
Join(texts, sep) ==
  IF texts = <<>> THEN <<>>
  ELSE IF Len(texts) = 1 THEN texts[1]
  ELSE texts[1] \o sep \o Join(Tail(texts), sep)

\* -------------------------------------------------------- the CLI object

\* The request of a call of sendToGemini that awaits none.
NoRequest ==
  [kind |-> "none", attempt |-> 0, chatId |-> 0, fresh |-> FALSE,
   msg |-> <<>>, wait |-> 0, delay |-> -1, err |-> <<>>]

\* A call of sendToGemini that has not started.  ran: the tool calls it
\* has executed since it started or since it last replaced the conversation
\* by an empty one.
NotStarted ==
  [pc |-> "idle", task |-> <<>>, req |-> NoRequest, calls |-> <<>>, idx |-> 0,
   results |-> <<>>, inRecovery |-> FALSE, cut |-> 0, summary |-> <<>>, ran |-> 0]

\* The fields of CLI as its constructor leaves them; question: a callback
\* of rl.question is waiting for a line; started: start() has run; exited:
\* process.exit has been called.
NewCli ==
  [interrupted |-> FALSE, processing |-> FALSE, toolCallCount |-> 0,
   lastUserMessage |-> <<>>, completedActions |-> <<>>,
   lastResponseHadText |-> FALSE, question |-> FALSE, started |-> FALSE,
   exited |-> FALSE]

\* The call of the model API rejected: no result.
Rejected ==
  [candidates |-> FALSE, blockReason |-> <<>>, calls |-> <<>>,
   texts |-> <<>>, finishReason |-> "NONE"]

\* What the environment has done so far in the run, and the plan that
\* bounds what it may do; reply: how the last call of the model API that
\* settled did so, its result or Rejected, and the call of sendToGemini
\* that made it.
NoEnv ==
  [plan |-> "tools", turns |-> 0, sigints |-> 0, batches |-> 0, faults |-> 0,
   toolFaults |-> 0,
   reply |-> [turn |-> 0, result |-> Rejected]]

CliConstructed ==
  /\ chat = NullChat
  /\ chatSeq = 0
  /\ cli = NewCli
  /\ th = [t \in 1..MaxTurns |-> NotStarted]
  /\ memoryLog = <<>>
  /\ memSaved = <<>>
  /\ sinceCtrlC = 2
  /\ env = NoEnv
  /\ ChromeConstructed

\* ------------------------------------------------- the session, specified

SessionInit ==
  /\ entries = <<>>
  /\ logFile = <<>>
  /\ sessLoaded = FALSE
  /\ wallClock = 0
  /\ appended = <<>>
  /\ restarts = 0
  /\ CliConstructed

\* Session.load
SessLoad ==
  /\ entries' = LoadedEntries(entries, logFile)
  /\ sessLoaded' = TRUE
  /\ UNCHANGED <<logFile, wallClock, appended, restarts, cliVars, chromeVars, domVars, memSaved>>

\* Session.append, by a caller that has loaded the session (CLI.start does).
SessAppend ==
  /\ sessLoaded
  /\ Len(appended) < MaxLog
  /\ \E partial \in EntrySamples : SessionAppend(<<partial>>)
  /\ UNCHANGED <<sessLoaded, wallClock, restarts, cliVars, chromeVars, domVars, memSaved>>

\* The process ends and a new one constructs Session with the same id.
SessRestart ==
  /\ restarts < MaxRestarts
  /\ entries' = <<>>
  /\ sessLoaded' = FALSE
  /\ restarts' = restarts + 1
  /\ UNCHANGED <<logFile, wallClock, appended, cliVars, chromeVars, domVars, memSaved>>

SessClock ==
  /\ wallClock < MaxClock
  /\ wallClock' = wallClock + 1
  /\ UNCHANGED <<entries, logFile, sessLoaded, appended, restarts, cliVars, chromeVars, domVars, memSaved>>

SessionNext == SessLoad \/ SessAppend \/ SessRestart \/ SessClock

SpecSession == SessionInit /\ [][SessionNext]_vars

\* ------------------------------------------- the page scripts of click, type

\* An element of the document: its tag, its id, its textContent, the
\* attributes the scripts read (aria-label, value, role, type, name,
\* placeholder, contenteditable="true"), whether it is rendered
\* (offsetParent is not null) and the value property of a form control.
\* Texts are character sequences.
El(tag) ==
  [tag |-> tag, id |-> <<>>, text |-> <<>>, label |-> <<>>, value |-> <<>>,
   role |-> <<>>, type |-> <<>>, name |-> <<>>, placeholder |-> <<>>,
   editable |-> FALSE, rendered |-> TRUE, val |-> <<>>]

\* String.prototype.toLowerCase
ToLowerCase(s) == [i \in 1..Len(s) |-> Lower(s[i])]

\* element.matches(sel) for the selectors of the model: a type selector
\* (letters; tag names match without case) and an id selector (# and
\* letters).  Every other descriptor of the model is no selector and
\* querySelector throws on it.
MatchesSelector(e, sel) ==
  LET t == Trim(sel)
      IsIdent(x) == x # <<>> /\ \A i \in 1..Len(x) : x[i] \notin {" ", "!", "#", "."}
  IN IF t # <<>> /\ t[1] = "#" THEN IsIdent(Tail(t)) /\ e.id = Tail(t)
     ELSE IsIdent(t) /\ e.tag = ToLowerCase(t)

\* A querySelector that returns the last match.
QuerySelectorLast(doc, sel) ==
  LET hits == {i \in 1..Len(doc) : MatchesSelector(doc[i], sel)} IN
  IF hits = {} THEN 0 ELSE CHOOSE i \in hits : \A j \in hits : i >= j

\* try { el = document.querySelector(sel) } catch(e) {}: the position of
\* the first match in document order, 0 for null.
QuerySelector(doc, sel) ==
  LET hits == {i \in 1..Len(doc) : MatchesSelector(doc[i], sel)} IN
  IF hits = {} THEN 0 ELSE CHOOSE i \in hits : \A j \in hits : i <= j

\* The element the script of click resolves the descriptor d to, and the
\* step that found it: [el, step], el = 0 where it finds none.
ClickResolve(doc, d) ==
  LET byCss == QuerySelector(doc, d)
      searchText == Trim(ToLowerCase(d))
      T(e) == Trim(ToLowerCase(IF e.text # <<>> THEN e.text
                               ELSE IF e.label # <<>> THEN e.label ELSE e.value))
      candidates ==
        {i \in 1..Len(doc) :
           \/ doc[i].tag \in {<<"a">>, <<"b", "u", "t", "t", "o", "n">>}
           \/ doc[i].role = <<"b", "u", "t", "t", "o", "n">>
           \/ /\ doc[i].tag = <<"i", "n", "p", "u", "t">>
              /\ doc[i].type \in {<<"s", "u", "b", "m", "i", "t">>,
                                  <<"b", "u", "t", "t", "o", "n">>}}
      found == {i \in candidates :
                  T(doc[i]) = searchText \/ Includes(T(doc[i]), searchText)}
      exact == {i \in 1..Len(doc) :
                  Trim(ToLowerCase(doc[i].text)) = searchText /\ doc[i].rendered}
  IN IF byCss # 0 THEN [el |-> byCss, step |-> 1]
     ELSE IF found # {}
     THEN [el |-> CHOOSE i \in found : \A j \in found : i <= j, step |-> 2]
     ELSE IF exact # {}
     THEN [el |-> CHOOSE i \in exact : \A j \in exact : i <= j, step |-> 3]
     ELSE [el |-> 0, step |-> 0]

\* The element the first script of type resolves the descriptor d to.
TypeResolve(doc, d) ==
  LET byCss == QuerySelector(doc, d)
      search == ToLowerCase(d)
      Has(a) == Includes(ToLowerCase(a), search)
      inputs ==
        {i \in 1..Len(doc) :
           \/ doc[i].tag \in {<<"i", "n", "p", "u", "t">>,
                              <<"t", "e", "x", "t", "a", "r", "e", "a">>,
                              <<"s", "e", "l", "e", "c", "t">>}
           \/ doc[i].editable
           \/ doc[i].role = <<"t", "e", "x", "t", "b", "o", "x">>}
      found == {i \in inputs :
                  \/ Has(doc[i].placeholder) \/ Has(doc[i].name) \/ Has(doc[i].label)
                  \/ Has(doc[i].type) \/ Has(doc[i].role)}
      editors == {i \in 1..Len(doc) : doc[i].editable}
      textboxes == {i \in 1..Len(doc) : doc[i].role = <<"t", "e", "x", "t", "b", "o", "x">>}
  IN IF byCss # 0 THEN [el |-> byCss, step |-> 1]
     ELSE IF found # {}
     THEN [el |-> CHOOSE i \in found : \A j \in found : i <= j, step |-> 2]
     ELSE IF editors # {}
     THEN [el |-> CHOOSE i \in editors : \A j \in editors : i <= j, step |-> 3]
     ELSE IF textboxes # {}
     THEN [el |-> CHOOSE i \in textboxes : \A j \in textboxes : i <= j, step |-> 3]
     ELSE [el |-> 0, step |-> 0]

\* ------------------------------------------------ the page scripts, specified

\* The documents of the model, elements in document order.
PageSamples ==
  LET button == <<"b", "u", "t", "t", "o", "n">>
      input == <<"i", "n", "p", "u", "t">>
      textarea == <<"t", "e", "x", "t", "a", "r", "e", "a">>
      div == <<"d", "i", "v">>
      Yes == <<"Y", "e", "s">>
      Set == <<"S", "e", "t">>
      rest == <<"r", "e", "s", "t">>
  IN {\* <button>Yes</button> <s>Set</s> <a>Try</a> <s>rest</s>
      \* <input id="t" type="text" name="try" value="x">
      << [El(button) EXCEPT !.text = Yes],
         [El(<<"s">>) EXCEPT !.text = Set],
         [El(<<"a">>) EXCEPT !.text = <<"T", "r", "y">>],
         [El(<<"s">>) EXCEPT !.text = rest],
         [El(input) EXCEPT !.id = <<"t">>, !.type = <<"t", "e", "x", "t">>,
                           !.name = <<"t", "r", "y">>, !.val = <<"x">>] >>,
      \* <button aria-label="Yes">x</button> <button aria-label="Set"></button>
      \* <div>Yes</div> <div hidden>rest</div>
      << [El(button) EXCEPT !.text = <<"x">>, !.label = Yes],
         [El(button) EXCEPT !.label = Set],
         [El(div) EXCEPT !.text = Yes],
         [El(div) EXCEPT !.text = rest, !.rendered = FALSE] >>,
      \* <input id="t" placeholder="Yes" value="x"> <textarea name="rest">x</textarea>
      \* <div contenteditable="true" role="textbox">x</div>
      \* <input type="submit" value="Set">
      << [El(input) EXCEPT !.id = <<"t">>, !.placeholder = Yes, !.val = <<"x">>],
         [El(textarea) EXCEPT !.name = rest, !.val = <<"x">>],
         [El(div) EXCEPT !.editable = TRUE, !.text = <<"x">>,
                         !.role = <<"t", "e", "x", "t", "b", "o", "x">>],
         [El(input) EXCEPT !.type = <<"s", "u", "b", "m", "i", "t">>,
                           !.value = Set, !.val = Set] >>}

\* The descriptors the tools are called with: a type selector, a text that is
\* also a well-formed selector, an id selector, a text, a text that is no
\* selector, and the empty string.
Descriptors ==
  {<<"s">>, <<"Y", "e", "s">>, <<"#", "t">>, <<"r", "e", "s", "t">>,
   <<"S", "e", "t", "!">>, <<>>}

\* The texts chrome_type is called with.
TypeTexts == {<<>>, <<"e">>, <<"e", "s">>}

\* The tab loads a document.
DomLoad ==
  /\ page = <<>>
  /\ page' \in PageSamples
  /\ UNCHANGED <<sessVars, cliVars, chromeVars, domOp, memSaved>>

\* ChromeClient.click on a connected client: the script resolves the
\* descriptor and clicks the element.
DomClick ==
  /\ page # <<>>
  /\ \E d \in Descriptors :
       \E r \in {ClickResolve(page, d)} :
         domOp' = [name |-> "click", d |-> d, el |-> r.el, step |-> r.step,
                   text |-> <<>>, inputs |-> 0, changes |-> 0,
                   result |-> IF r.el = 0
                              THEN <<"ERROR", ": Could not find element matching: ">> \o d
                              ELSE <<"Clicked: ">> \o page[r.el].tag]
  /\ UNCHANGED <<sessVars, cliVars, chromeVars, page, memSaved>>

\* ChromeClient.type on a connected client: the first script resolves the
\* descriptor, focuses the element and clears it; the key events of each
\* character follow (keysPass: the focused element inserts their text and
\* fires an input event for each); the last script sets the value of the
\* active element and dispatches input and change.
DomType ==
  /\ page # <<>>
  /\ \E d \in Descriptors, text \in TypeTexts, keysPass \in BOOLEAN :
       \E r \in {TypeResolve(page, d)} :
         IF r.el = 0
         THEN /\ page' = page
              /\ domOp' = [name |-> "type", d |-> d, el |-> 0, step |-> 0,
                           text |-> text, inputs |-> 0, changes |-> 0,
                           result |-> <<"ERROR", ": Could not find input matching: ">> \o d]
         ELSE LET e == page[r.el]
                  isContentEditable ==
                    e.editable \/ e.role = <<"t", "e", "x", "t", "b", "o", "x">>
                  hasValue == e.tag \in {<<"i", "n", "p", "u", "t">>,
                                         <<"t", "e", "x", "t", "a", "r", "e", "a">>,
                                         <<"s", "e", "l", "e", "c", "t">>,
                                         <<"b", "u", "t", "t", "o", "n">>}
                  textField == e.tag \in {<<"i", "n", "p", "u", "t">>,
                                          <<"t", "e", "x", "t", "a", "r", "e", "a">>}
                              /\ e.type \notin {<<"s", "u", "b", "m", "i", "t">>,
                                                 <<"b", "u", "t", "t", "o", "n">>}
                  active == hasValue \/ e.editable \/ e.tag = <<"a">>
                  cleared == IF isContentEditable THEN [e EXCEPT !.text = <<>>]
                             ELSE IF hasValue THEN [e EXCEPT !.val = <<>>]
                             ELSE e
                  inserts == keysPass /\ (e.editable \/ textField)
                  keyed == IF ~inserts THEN cleared
                           ELSE IF e.editable
                           THEN [cleared EXCEPT !.text = cleared.text \o text]
                           ELSE [cleared EXCEPT !.val = cleared.val \o text]
                  keyInputs == IF inserts THEN Len(text) ELSE 0
                  \* the native setter of HTMLInputElement throws on any
                  \* other element, before the events are dispatched
                  sets == ~isContentEditable /\ active /\ e.tag = <<"i", "n", "p", "u", "t">>
                  forces == isContentEditable /\ active /\ e.editable
                            /\ Trim(keyed.text) = <<>>
                  final == IF sets THEN [keyed EXCEPT !.val = text]
                           ELSE IF forces THEN [keyed EXCEPT !.text = text]
                           ELSE keyed
              IN /\ page' = [page EXCEPT ![r.el] = final]
                 /\ domOp' = [name |-> "type", d |-> d, el |-> r.el, step |-> r.step,
                              text |-> text,
                              inputs |-> keyInputs + (IF sets \/ forces THEN 1 ELSE 0),
                              changes |-> IF sets THEN 1 ELSE 0,
                              result |-> <<"Typed ">> \o text]
  /\ UNCHANGED <<sessVars, cliVars, chromeVars, memSaved>>

SpecDom == SessionInit /\ [][DomLoad \/ DomClick \/ DomType]_vars

\* -------------------------------------------------- the memory, specified

\* Calls of Memory.save in one run.
MaxSaves == 12

\* Memory.save, as the CLI calls it at a compaction and at /exit.
MemSave ==
  /\ Len(memSaved) < MaxSaves
  /\ \E e \in {[type |-> "compaction", task |-> <<"a", QUOTE>>,
                 summary |-> <<"x", NEWLINE, "y">>],
                [type |-> "session_end", task |-> <<"b">>,
                 summary |-> <<BACKSLASH, "n">>]} :
       /\ memoryLog' = MemorySave(memoryLog, e.type, e.task, e.summary)
       /\ memSaved' = Append(memSaved,
                             [timestamp |-> ISO(wallClock), type |-> e.type,
                              task |-> e.task, summary |-> e.summary])
  /\ UNCHANGED <<sessVars, chat, chatSeq, cli, th, sinceCtrlC, env, chromeVars, domVars>>

SpecMemory == SessionInit /\ [][MemSave]_vars

\* ------------------------------------------------- the history, specified

\* The logs handed to toGeminiHistory: every sequence of roles up to
\* MaxHist, the content of an entry naming its position.
RECURSIVE RoleSeqs(_)
RoleSeqs(n) ==
  IF n = 0 THEN {<<>>}
  ELSE RoleSeqs(n - 1)
       \cup {Append(rs, r) : rs \in {x \in RoleSeqs(n - 1) : Len(x) = n - 1}, r \in Roles}

LogOfRoles(rs) ==
  [i \in 1..Len(rs) |-> LogEntry(rs[i], <<DigitChar(i)>>, ISO(0), NoMetadata)]

HistoryInit ==
  /\ \E rs \in RoleSeqs(MaxHist) :
       /\ entries = LogOfRoles(rs)
       /\ appended = LogOfRoles(rs)
       /\ logFile = AppendFileAll(<<>>, LogOfRoles(rs))
  /\ sessLoaded = TRUE
  /\ wallClock = 0
  /\ restarts = 0
  /\ CliConstructed

\* CLI.initChat
InitChat ==
  /\ chat' = Numbered(StartChat(ToGeminiHistory(entries)), chatSeq)
  /\ chatSeq' = chatSeq + 1

HistInitChat ==
  /\ chatSeq = 0
  /\ InitChat
  /\ UNCHANGED <<sessVars, cli, th, memoryLog, sinceCtrlC, env, chromeVars, domVars, memSaved>>

SpecHistory == HistoryInit /\ [][HistInitChat]_vars

\* ---------------------------------------------------------------- the CLI

\* CLI.COMPACT_THRESHOLD
COMPACT_THRESHOLD == 12

\* The window of a double Ctrl+C, in seconds (2000 ms).
DoubleCtrlCSec == 2

\* getWorkingDir()
WorkingDir == <<"/w">>

\* The text the user types for turn n.
TaskText(n) == <<"t", DigitChar(n)>>

ContextPrefix ==
  <<"[Working directory: ">> \o WorkingDir \o <<"]", NEWLINE, NEWLINE>>

\* string.slice(0, n)
SliceTo(text, n) == SubSeq(text, 1, IF Len(text) < n THEN Len(text) ELSE n)

\* The argument a tool takes in the model's calls of this model.
ArgKey(name) ==
  CASE name = "chrome_navigate" -> "url"
    [] name = "chrome_click" -> "target"
    [] name = "chrome_type" -> "text"
    [] OTHER -> "ms"

ToolCycle == <<"chrome_navigate", "chrome_click", "chrome_type", "chrome_wait">>

\* The batch of n function calls the model answers with.
Batch(n) ==
  [i \in 1..n |->
     [name |-> ToolCycle[((i - 1) % Len(ToolCycle)) + 1], arg |-> <<"x", DigitChar(i % 10)>>]]

\* JSON.stringify({ name: call.name, args: call.args })
ToolCallJson(call) ==
  <<"{">> \o JsonKey("name") \o JsonString(<<call.name>>) \o <<",">>
  \o JsonKey("args") \o <<"{">> \o JsonKey(ArgKey(call.name))
  \o JsonString(call.arg) \o <<"}", "}">>

\* The text the action behind a call returns when it succeeds.
SuccessText(call) ==
  CASE call.name = "chrome_navigate" -> <<"Navigated to: ">> \o call.arg
    [] call.name = "chrome_click" -> <<"Clicked", ": ", "A ", QUOTE>> \o call.arg \o <<QUOTE>>
    [] call.name = "chrome_type" -> <<"Typed", " ", QUOTE>> \o call.arg \o <<QUOTE, " into ", "input">>
    [] OTHER -> <<"Waited ">> \o call.arg \o <<"ms">>

NotFound(call) ==
  Returned(<<"ERROR", ": Could not find element matching: ">> \o JsonString(call.arg))

NotConnected ==
  Threw(<<"Not connected to any Chrome tab. Use chrome_list_tabs and chrome_attach first.">>)

\* The failures of the action behind a call: click and type report an
\* element they do not find; every action but wait throws without a tab.
ToolFailures(call) ==
  (IF call.name \in {"chrome_click", "chrome_type"} THEN {NotFound(call)} ELSE {})
  \cup (IF call.name # "chrome_wait" THEN {NotConnected} ELSE {})

\* The entry completedActions gets for a call and its result, if any.
TrackedAction(call, result) ==
  IF call.name = "chrome_navigate" /\ call.arg # <<>>
  THEN <<(<<"Navigated to: ">> \o call.arg)>>
  ELSE IF call.name = "chrome_type" /\ StartsWith(result, <<"Typed">>)
  THEN <<(<<"Typed comment: ", QUOTE>> \o SliceTo(call.arg, 60) \o <<"...", QUOTE>>)>>
  ELSE IF call.name = "chrome_click" /\ StartsWith(result, <<"Clicked">>)
  THEN <<(<<"Clicked: ">> \o call.arg)>>
  ELSE <<>>

\* completedActions.slice(-20).join(sep)
ActionList(actions, sep) == Join(SliceLast(actions, 20), sep)

\* continuationMsg of the auto-compact branch of processResponse
ContinuationMsg(lastUserMessage, lastToolResult, actions, memoryCtx) ==
  ContextPrefix
  \o <<"[CONTEXT COMPACTED]", NEWLINE, NEWLINE, "Your original task: ">>
  \o lastUserMessage
  \o <<NEWLINE, NEWLINE, "The last tool you used was ", QUOTE, lastToolResult.name,
       QUOTE, " which returned: ">>
  \o SliceTo(JsonString(lastToolResult.result), 500)
  \o (IF ActionList(actions, <<NEWLINE, "- ">>) # <<>>
      THEN <<NEWLINE, NEWLINE, "Actions completed so far:", NEWLINE, "- ">>
           \o ActionList(actions, <<NEWLINE, "- ">>)
           \o <<NEWLINE, NEWLINE, "DO NOT repeat actions.">>
      ELSE <<>>)
  \o memoryCtx
  \o <<NEWLINE, NEWLINE, "Continue working on the task.">>

\* retryMsg of the rate-limit recovery of sendToGemini
RecoveryMsg(lastUserMessage) ==
  ContextPrefix
  \o <<"[Rate limit recovery]", NEWLINE, NEWLINE, "Your original task: ">>
  \o lastUserMessage
  \o <<NEWLINE, NEWLINE, "Continue working on the task.">>

\* What a handler works on between two awaits: the fields of the CLI, the
\* chat, the memory file, the entries of the session (es), the entries it
\* appended (out) and the call of sendToGemini it runs in (thr).
Ctx(thr) ==
  [cli |-> cli, chat |-> chat, chatSeq |-> chatSeq, mem |-> memoryLog,
   es |-> entries, out |-> <<>>, thr |-> thr]

\* this.session.append(partial)
Logged(c, partial) ==
  LET full == LogEntry(partial.role, partial.content, ISO(wallClock), partial.metadata)
  IN [c EXCEPT !.es = PushEntry(@, full), !.out = Append(@, full)]

\* this.chat = this.gemini.startChat(history)
WithNewChat(c, history) ==
  [c EXCEPT !.chat = Numbered(StartChat(history), c.chatSeq), !.chatSeq = @ + 1]

\* CLI.initChat
CtxInitChat(c) == WithNewChat(c, ToGeminiHistory(c.es))

\* CLI.prompt
Prompt(c) ==
  [c EXCEPT !.cli.processing = FALSE, !.cli.interrupted = FALSE,
            !.cli.question = TRUE]

\* withRetry calls fn(): the message goes to the chat this.chat is now.
Send(c, kind, msg, attempt) ==
  [c EXCEPT !.thr.pc = "send",
            !.thr.req = [kind |-> kind, attempt |-> attempt,
                         chatId |-> c.chat.id,
                         fresh |-> c.chat.history = <<>> /\ c.chat.sent = 0,
                         msg |-> msg, wait |-> 0, delay |-> -1, err |-> <<>>]]

\* sendToGemini returns to handleInput, which prompts.
Return(c) ==
  Prompt([c EXCEPT !.thr = [NotStarted EXCEPT !.pc = "done", !.task = c.thr.task,
                                               !.summary = c.thr.summary]])

\* sendToGemini after processResponse has returned: in the recovery it
\* returns; else it shows the summary of the actions if the model ended
\* without a text.
AfterProcessResponse(c) ==
  IF c.thr.inRecovery THEN Return(c)
  ELSE IF ~c.cli.lastResponseHadText /\ ~c.cli.interrupted
          /\ c.cli.completedActions # <<>>
  THEN Return([c EXCEPT !.thr.summary =
                 <<"Done. Here's what I did:", NEWLINE, "  - ">>
                 \o Join(SliceLast(c.cli.completedActions, 5), <<NEWLINE, "  - ">>)])
  ELSE Return(c)

\* The head of the loop over response.calls, at call idx.
NextCall(c) ==
  IF c.cli.interrupted THEN AfterProcessResponse(c)
  ELSE [Logged(c, Partial("tool_call", ToolCallJson(c.thr.calls[c.thr.idx])))
          EXCEPT !.thr.pc = "tool", !.thr.req = NoRequest]

\* processResponse after the loop over response.calls.
AfterBatch(c) ==
  IF c.cli.interrupted THEN AfterProcessResponse(c)
  ELSE IF c.cli.toolCallCount + Len(c.thr.calls) >= COMPACT_THRESHOLD
  THEN Send([c EXCEPT !.cli.toolCallCount = 0], "preCompact", <<>>, 0)
  ELSE Send([c EXCEPT !.cli.toolCallCount = @ + Len(c.thr.calls)], "results", <<>>, 0)

\* processResponse from the return of executeTool for call idx.
ToolReturned(c, result) ==
  LET call == c.thr.calls[c.thr.idx]
      c1 == Logged(c, PartialTool("tool_result", result, call.name))
      c2 == [c1 EXCEPT !.thr.results = Append(@, [name |-> call.name, result |-> result]),
                       !.cli.completedActions = @ \o TrackedAction(call, result),
                       !.thr.idx = @ + 1, !.thr.ran = @ + 1]
  IN IF c2.thr.idx <= Len(c2.thr.calls) THEN NextCall(c2) ELSE AfterBatch(c2)

\* processResponse(response) up to its first await
ProcessResponse(c, response) ==
  IF c.cli.interrupted THEN AfterProcessResponse(c)
  ELSE IF response.type = "text"
  THEN AfterProcessResponse(
         Logged([c EXCEPT !.cli.lastResponseHadText = TRUE],
                Partial("model", response.text)))
  ELSE NextCall([c EXCEPT !.thr.calls = response.calls, !.thr.idx = 1,
                          !.thr.results = <<>>, !.thr.cut = 0])

\* An auto-compact branch that continues in the conversation it has.
CompactKeepsChat(c) ==
  LET msg == ContinuationMsg(c.cli.lastUserMessage, Last(c.thr.results),
                             c.cli.completedActions, FormatForContext(c.mem))
      c2 == Logged(c, Partial("system",
              <<"Context compacted after ">> \o Digits(COMPACT_THRESHOLD)
              \o <<" tool calls.">>))
      c3 == [c2 EXCEPT !.mem = MemorySave(@, "compaction",
                                 SliceTo(c.cli.lastUserMessage, 200),
                                 <<"Context compacted (no tracked actions)">>)]
  IN Send(c3, "continuation", msg, 0)

\* The auto-compact branch after the pre-compact send has settled.
Compact(c) ==
  LET c1 == WithNewChat([c EXCEPT !.thr.ran = 0], <<>>)
      msg == ContinuationMsg(c.cli.lastUserMessage, Last(c.thr.results),
                             c.cli.completedActions, FormatForContext(c.mem))
      c2 == Logged(c1, Partial("system",
              <<"Context compacted after ">> \o Digits(COMPACT_THRESHOLD)
              \o <<" tool calls.">>))
      actionList == ActionList(c.cli.completedActions, <<"; ">>)
      c3 == [c2 EXCEPT !.mem = MemorySave(@, "compaction",
                                 SliceTo(c.cli.lastUserMessage, 200),
                                 IF actionList # <<>> THEN actionList
                                 ELSE <<"Context compacted (no tracked actions)">>)]
  IN Send(c3, "continuation", msg, 0)

\* The outer catch of sendToGemini.
OuterCatch(c, err) ==
  IF c.cli.interrupted THEN Return(c)
  ELSE IF Includes(err.msg, S429) \/ Includes(err.msg, SQuota)
  THEN [WithNewChat(c, <<>>) EXCEPT !.cli.toolCallCount = 0, !.thr.pc = "cooldown",
                                    !.thr.req = NoRequest, !.thr.ran = 0]
  ELSE Return(Logged(c, Partial("system", <<"Error: ">> \o err.msg)))

\* A sendToGemini whose recovery handles its own failure as the failure of
\* the first send is handled.
ThrownLoops(c, err) ==
  LET kind == c.thr.req.kind IN
  IF kind = "initial"
  THEN IF Includes(err.msg, SInvalidArgument) \/ Includes(err.msg, SHistory)
       THEN Send(CtxInitChat(c), "initialRetry", c.thr.req.msg, 0)
       ELSE OuterCatch(c, err)
  ELSE IF kind \in {"initialRetry", "recovery"} THEN OuterCatch(c, err)
  ELSE IF kind = "preCompact" THEN Compact(c)
  ELSE IF c.cli.interrupted THEN AfterProcessResponse(c)
  ELSE AfterProcessResponse(
         Logged(c, Partial("system",
           (IF kind = "results" THEN <<"Tool result error: ">>
            ELSE <<"Error after compact: ">>) \o err.msg)))

\* withRetry rethrows err: the catch around the call that was made.
Thrown(c, err) ==
  LET kind == c.thr.req.kind IN
  IF kind = "initial"
  THEN IF Includes(err.msg, SInvalidArgument) \/ Includes(err.msg, SHistory)
       THEN Send(CtxInitChat(c), "initialRetry", c.thr.req.msg, 0)
       ELSE OuterCatch(c, err)
  ELSE IF kind = "initialRetry" THEN OuterCatch(c, err)
  ELSE IF kind = "preCompact" THEN Compact(c)
  ELSE IF kind = "recovery" THEN Return(c)
  ELSE IF c.cli.interrupted THEN AfterProcessResponse(c)
  ELSE AfterProcessResponse(
         Logged(c, Partial("system",
           (IF kind = "results" THEN <<"Tool result error: ">>
            ELSE <<"Error after compact: ">>) \o err.msg)))

\* The catch of withRetry for an error of attempt req.attempt.
Failed(c, err) ==
  IF IsRateLimit(err.msg) /\ c.thr.req.attempt < MaxRetries
  THEN [c EXCEPT !.thr.pc = "sleep",
                 !.thr.req.wait = WaitSec(err.msg, c.thr.req.attempt),
                 !.thr.req.delay = err.delay,
                 !.thr.req.err = err.msg]
  ELSE Thrown(c, err)

\* ------------------------------------------------------ the CLI, specified

\* Ctrl+C signals in one run of the agent.
MaxSigints == 2
\* Responses of the model with function calls in one run.
MaxBatches == 2
\* Responses of the model with COMPACT_THRESHOLD function calls in one run.
MaxCompactions == 1
\* Calls of withRetry in one run whose first attempt fails, and the
\* responses with function calls in such a run.
MaxFaults == 1
MaxFaultyBatches == 1
\* Failed tool actions in one run.
MaxToolFaults == 1

\* The calls of a batch that does not reach the compaction threshold.
SmallBatch == 2

\* The runs of the agent are those of three plans of its environment: the
\* model calls tools in small batches and tools fail; the model answers
\* with one batch that reaches the compaction threshold; calls of the
\* model API fail.  Signals and user input come at any time in each.
Plans == {"tools", "compaction", "faults"}

Budget(plan) ==
  CASE plan = "tools" ->
         [batches |-> MaxBatches, sizes |-> {SmallBatch}, faults |-> 0,
          toolFaults |-> MaxToolFaults]
    [] plan = "compaction" ->
         [batches |-> MaxCompactions, sizes |-> {COMPACT_THRESHOLD}, faults |-> 0,
          toolFaults |-> 0]
    [] OTHER ->
         [batches |-> MaxFaultyBatches, sizes |-> {SmallBatch}, faults |-> MaxFaults,
          toolFaults |-> 0]

\* What the model API resolves with: whether there is a candidate, the
\* block reason of the prompt feedback (empty: none), and the function calls,
\* the text parts and the finish reason of the first candidate.
TextResult ==
  [candidates |-> TRUE, blockReason |-> <<>>, calls |-> <<>>,
   texts |-> <<(<<"ok">>)>>, finishReason |-> "STOP"]

EmptyResult ==
  [candidates |-> TRUE, blockReason |-> <<>>, calls |-> <<>>,
   texts |-> <<>>, finishReason |-> "STOP"]

CallsResult(n, texts) ==
  [candidates |-> TRUE, blockReason |-> <<>>, calls |-> Batch(n),
   texts |-> texts, finishReason |-> "STOP"]

\* GeminiClient.parseResponse; text = <<>> of a function_calls response is
\* text: undefined.
ParseResponse(result) ==
  IF ~result.candidates
  THEN [type |-> "text", calls |-> <<>>,
        text |-> IF result.blockReason # <<>>
                 THEN <<"(Response blocked: ">> \o result.blockReason \o <<")">>
                 ELSE <<"(No response from model)">>]
  ELSE IF result.calls # <<>>
  THEN [type |-> "function_calls", calls |-> result.calls,
        text |-> Join(result.texts, <<NEWLINE>>)]
  ELSE IF result.texts = <<>> \/ IsBlank(Join(result.texts, <<>>))
  THEN [type |-> "text", calls |-> <<>>,
        text |-> CASE result.finishReason = "SAFETY" ->
                        <<"(Response filtered by safety settings)">>
                   [] result.finishReason = "MAX_TOKENS" ->
                        <<"(Response cut off - token limit reached)">>
                   [] OTHER -> <<"(Model returned empty response)">>]
  ELSE [type |-> "text", calls |-> <<>>, text |-> Join(result.texts, <<NEWLINE>>)]

\* A log and a memory file that earlier runs left.
PriorEntries ==
  <<LogEntry("system", <<"Session started.">>, ISO(0), NoMetadata),
    LogEntry("user", TaskText(0), ISO(0), NoMetadata),
    LogEntry("model", <<"ok">>, ISO(0), NoMetadata)>>

PriorMemory ==
  MemoryLine(ISO(0), "session_end", TaskText(0), <<"Session ended (no tracked actions)">>)

Init ==
  /\ \E resumed \in BOOLEAN :
       /\ logFile = AppendFileAll(<<>>, IF resumed THEN PriorEntries ELSE <<>>)
       /\ appended = (IF resumed THEN PriorEntries ELSE <<>>)
       /\ memoryLog = (IF resumed THEN PriorMemory ELSE <<>>)
  /\ entries = <<>>
  /\ sessLoaded = FALSE
  /\ wallClock = 0
  /\ restarts = 0
  /\ chat = NullChat
  /\ chatSeq = 0
  /\ cli = NewCli
  /\ th = [t \in 1..MaxTurns |-> NotStarted]
  /\ sinceCtrlC = DoubleCtrlCSec
  /\ memSaved = <<>>
  /\ \E plan \in Plans : env = [NoEnv EXCEPT !.plan = plan]
  /\ ChromeConstructed

\* The handler has run to its next await in the call t of sendToGemini.
Commit(t, ctx) ==
  \E c \in {ctx} :
    /\ cli' = c.cli
    /\ chat' = c.chat
    /\ chatSeq' = c.chatSeq
    /\ memoryLog' = c.mem
    /\ th' = [th EXCEPT ![t] = c.thr]
    /\ entries' = c.es
    /\ logFile' = AppendFileAll(logFile, c.out)
    /\ appended' = appended \o c.out

Running == cli.started /\ ~cli.exited

\* CLI.start
Start ==
  /\ ~cli.started
  /\ \E loaded \in {LoadedEntries(entries, logFile)} :
     \E memoryContext \in {FormatForContext(memoryLog)} :
     \E c0 \in {[Ctx(th[1]) EXCEPT !.es = loaded, !.cli.started = TRUE]} :
     \E c1 \in {IF loaded # <<>> THEN c0
                 ELSE Logged(c0, Partial("system",
                        <<"Session started. Working directory: ">> \o WorkingDir))} :
     \E c2 \in {IF memoryContext # <<>>
                 THEN Logged(c1, Partial("system", memoryContext)) ELSE c1} :
       Commit(1, Prompt(CtxInitChat(c2)))
  /\ sessLoaded' = TRUE
  /\ UNCHANGED <<wallClock, restarts, sinceCtrlC, env, chromeVars, domVars, memSaved>>

\* The user enters the task of turn t: handleInput and sendToGemini up to
\* the first call of the model.
UserInput(t) ==
  /\ Running /\ cli.question
  /\ t = env.turns + 1
  /\ \E task \in {TaskText(t)} :
     \E c0 \in {[Ctx(th[t]) EXCEPT !.cli.question = FALSE, !.cli.processing = TRUE]} :
     \E c1 \in {Logged(c0, Partial("user", task))} :
     \E c2 \in {[c1 EXCEPT !.cli.interrupted = FALSE, !.cli.toolCallCount = 0,
                            !.cli.lastUserMessage = task,
                            !.cli.completedActions = <<>>,
                            !.cli.lastResponseHadText = FALSE,
                            !.thr.task = task]} :
     \E c3 \in {IF ~c2.chat.live THEN CtxInitChat(c2) ELSE c2} :
       Commit(t, Send(c3, "initial", ContextPrefix \o task, 0))
  /\ env' = [env EXCEPT !.turns = @ + 1]
  /\ UNCHANGED <<sessLoaded, wallClock, restarts, sinceCtrlC, chromeVars, domVars, memSaved>>

\* The user enters an empty line: handleInput prompts again.
EmptyInput ==
  /\ Running /\ cli.question
  /\ cli' = [cli EXCEPT !.processing = FALSE, !.interrupted = FALSE]
  /\ UNCHANGED <<sessVars, chat, chatSeq, th, memoryLog, sinceCtrlC, env, chromeVars, domVars, memSaved>>

\* The user enters /exit.
SlashExit ==
  /\ Running /\ cli.question
  /\ memoryLog' =
       IF cli.lastUserMessage # <<>>
       THEN MemorySave(memoryLog, "session_end", SliceTo(cli.lastUserMessage, 200),
              IF ActionList(cli.completedActions, <<"; ">>) # <<>>
              THEN ActionList(cli.completedActions, <<"; ">>)
              ELSE <<"Session ended (no tracked actions)">>)
       ELSE memoryLog
  /\ cli' = [cli EXCEPT !.question = FALSE, !.exited = TRUE]
  /\ UNCHANGED <<sessVars, chat, chatSeq, th, sinceCtrlC, env, chromeVars, domVars, memSaved>>

\* The call of the model API that call t of sendToGemini awaits resolves.
\* The exchange is added to the ChatSession it was made in.  A text part
\* comes with the function calls in the runs of the plan "tools".
ModelResponds(t) ==
  /\ Running /\ th[t].pc = "send"
  /\ \E result \in {TextResult, EmptyResult}
                   \cup {CallsResult(n, texts) : n \in Budget(env.plan).sizes,
                                                 texts \in {<<>>} \cup
                                                   {<<(<<"hm">>)>> : p \in {env.plan} \cap {"tools"}}} :
     \E response \in {ParseResponse(result)} :
       /\ response.type = "function_calls" =>
            th[t].req.kind # "preCompact" /\ env.batches < Budget(env.plan).batches
       /\ th[t].req.kind = "preCompact" => result = TextResult
       /\ \E c0 \in {[Ctx(th[t]) EXCEPT
                         !.chat.sent = IF chat.id = th[t].req.chatId THEN @ + 1 ELSE @]} :
            Commit(t, IF th[t].req.kind = "preCompact" THEN Compact(c0)
                      ELSE ProcessResponse(c0, response))
       /\ env' = [env EXCEPT !.batches =
                    IF response.type = "function_calls" THEN @ + 1 ELSE @,
                               !.reply = [turn |-> t, result |-> result]]
  /\ UNCHANGED <<sessLoaded, wallClock, restarts, sinceCtrlC, chromeVars, domVars, memSaved>>

\* The call of the model API that call t of sendToGemini awaits rejects.
\* The resend after a protocol error and the send of the recovery message
\* may fail whatever has failed before.
ModelFails(t) ==
  /\ Running /\ th[t].pc = "send"
  /\ (th[t].req.attempt = 0 /\ th[t].req.kind \notin {"initialRetry", "recovery"}) =>
       env.faults < Budget(env.plan).faults
  /\ \E err \in ErrorSamples : \E c0 \in {Ctx(th[t])} : Commit(t, Failed(c0, err))
  /\ env' = [env EXCEPT !.faults =
               IF th[t].req.attempt = 0
                  /\ th[t].req.kind \notin {"initialRetry", "recovery"}
               THEN @ + 1 ELSE @,
                          !.reply = [turn |-> t, result |-> Rejected]]
  /\ UNCHANGED <<sessLoaded, wallClock, restarts, sinceCtrlC, chromeVars, domVars, memSaved>>

\* The sleep of withRetry ends: the next attempt.
Wake(t) ==
  /\ Running /\ th[t].pc = "sleep"
  /\ \E c0 \in {Ctx(th[t])} :
       Commit(t, Send(c0, th[t].req.kind, th[t].req.msg, th[t].req.attempt + 1))
  /\ UNCHANGED <<sessLoaded, wallClock, restarts, sinceCtrlC, env, chromeVars, domVars, memSaved>>

\* The cooldown of the rate-limit recovery ends: the recovery message.
CooldownDone(t) ==
  /\ Running /\ th[t].pc = "cooldown"
  /\ \E c0 \in {[Ctx(th[t]) EXCEPT !.thr.inRecovery = TRUE]} :
       Commit(t, Send(c0, "recovery", RecoveryMsg(cli.lastUserMessage), 0))
  /\ UNCHANGED <<sessLoaded, wallClock, restarts, sinceCtrlC, env, chromeVars, domVars, memSaved>>

\* executeTool resolves for the call that call t of sendToGemini awaits.
ToolReturns(t) ==
  /\ Running /\ th[t].pc = "tool"
  /\ LET call == th[t].calls[th[t].idx] IN
     \E failed \in BOOLEAN :
       /\ failed => env.toolFaults < Budget(env.plan).toolFaults
       /\ \E outcome \in (IF failed THEN ToolFailures(call)
                          ELSE {Returned(SuccessText(call))}) :
            \E c0 \in {Ctx(th[t])} :
            \E result \in {ExecuteTool(call.name, outcome).text} :
              Commit(t, ToolReturned(c0, result))
       /\ env' = [env EXCEPT !.toolFaults = IF failed THEN @ + 1 ELSE @]
  /\ UNCHANGED <<sessLoaded, wallClock, restarts, sinceCtrlC, chromeVars, domVars, memSaved>>

\* A SIGINT handler that takes no signal for the second of a double Ctrl+C.
NeverDouble(since) == FALSE

\* isDouble = now - lastCtrlCTime < 2000, since being the seconds since the
\* last Ctrl+C.
IsDouble(since) == since < DoubleCtrlCSec

\* The SIGINT handler of the readline interface.
Sigint ==
  /\ Running
  /\ env.sigints < MaxSigints
  /\ env' = [env EXCEPT !.sigints = @ + 1]
  /\ sinceCtrlC' = 0
  /\ IF IsDouble(sinceCtrlC)
     THEN /\ cli' = [cli EXCEPT !.exited = TRUE]
          /\ UNCHANGED <<sessVars, th>>
     ELSE IF cli.processing /\ ~cli.interrupted
     THEN /\ cli' = [cli EXCEPT !.interrupted = TRUE]
          /\ SessionAppend(<<Partial("system", <<"User interrupted the current task.">>)>>)
          /\ th' = [t \in 1..MaxTurns |->
                      IF th[t].pc = "tool" THEN [th[t] EXCEPT !.cut = th[t].idx]
                      ELSE th[t]]
          /\ UNCHANGED <<sessLoaded, wallClock, restarts>>
     ELSE /\ cli' = [cli EXCEPT !.processing = FALSE, !.interrupted = FALSE,
                                !.question = TRUE]
          /\ UNCHANGED <<sessVars, th>>
  /\ UNCHANGED <<chat, chatSeq, memoryLog, chromeVars, domVars, memSaved>>

\* The two seconds after the last Ctrl+C pass.
Tick ==
  /\ Running
  /\ sinceCtrlC < DoubleCtrlCSec
  /\ sinceCtrlC' = DoubleCtrlCSec
  /\ UNCHANGED <<sessVars, chat, chatSeq, cli, th, memoryLog, env, chromeVars, domVars, memSaved>>

Next ==
  \/ Start
  \/ \E t \in 1..MaxTurns : UserInput(t)
  \/ EmptyInput
  \/ SlashExit
  \/ \E t \in 1..MaxTurns : ModelResponds(t)
  \/ \E t \in 1..MaxTurns : ModelFails(t)
  \/ \E t \in 1..MaxTurns : Wake(t)
  \/ \E t \in 1..MaxTurns : CooldownDone(t)
  \/ \E t \in 1..MaxTurns : ToolReturns(t)
  \/ Sigint
  \/ Tick

Spec == Init /\ [][Next]_vars

\* -------------------------------------------- the tool router, specified

\* Tabs the browser opens in one run, and connections the ChromeClient
\* makes in one run.
MaxTabs == 2
MaxConns == 3

\* The ms the model gives chrome_wait: numbers, and NaN for an argument
\* that is missing or not a number.
WaitSamples ==
  {[nan |-> FALSE, n |-> k] : k \in {-1, 2000, 45000}}
  \cup {[nan |-> TRUE, n |-> 0]}

\* The tabs chrome_attach is asked for: the indexes of the list and one
\* beyond it, and the ids of tabs, open or not.
AttachSamples ==
  [num : {TRUE}, v : 0..MaxTabs] \cup [num : {FALSE}, v : 1..MaxTabs]

\* What the browser can do during a call.
Worlds ==
  [tabs : {tabs}, reachable : BOOLEAN, connectOk : BOOLEAN, enableOk : BOOLEAN]

Here == ChromeState(client, currentTab, connSeq)

\* executeTool(chrome, name, args) has settled: d is what the action
\* behind it did.
Settle(name, d, failed) ==
  /\ client' = d.st.client
  /\ currentTab' = d.st.currentTab
  /\ connSeq' = d.st.connSeq
  /\ lastOp' = [name |-> name, before |-> Here, done |-> d,
                result |-> ExecuteTool(name, [threw |-> d.threw, text |-> d.text]),
                failed |-> failed]
  /\ openConns' =
       {c \in openConns : c.conn # d.trace.closed}
       \cup (IF d.trace.opened # 0
            THEN {[conn |-> d.trace.opened, target |-> d.st.client.target]}
            ELSE {})
  /\ UNCHANGED <<tabs, everTabs, sessVars, cliVars, domVars, memSaved>>

ToolListTabs ==
  \E reachable \in BOOLEAN :
  \E d \in {IF ~reachable THEN Done(TRUE, CannotConnect, Here, NoTrace)
            ELSE IF tabs = <<>> THEN Done(FALSE, <<"No tabs found.">>, Here, NoTrace)
            ELSE Done(FALSE, <<"[0] ">> \o [i \in 1..Len(tabs) |-> DigitChar(tabs[i])],
                      Here, NoTrace)} :
    Settle("chrome_list_tabs", d, d.threw)

ToolAttach ==
  /\ connSeq < MaxConns
  /\ \E d \in {Attach(Here, w, tabIdOrIndex) : w \in Worlds, tabIdOrIndex \in AttachSamples} :
       Settle("chrome_attach", d, d.threw)

ToolPage(name) ==
  /\ connSeq < MaxConns
  /\ \E d \in {PageAction(name, Here, w, how) :
                w \in Worlds,
                how \in {h \in {"ok", "reported", "threw"} :
                          h = "reported" => ReportsFailure(name)}} :
       Settle(name, d, d.threw \/ d.text = Reported(name))

\* The urls chrome_navigate is asked for, without and with a protocol.
UrlSamples == {<<"a.io">>, <<"https://", "a.io">>}

\* What the browser does during a navigate.
NavWorlds ==
  {nav \in [navigated : BOOLEAN, load : {"fired", "timeout"},
            evaluated : {"value", "threw"}, committed : BOOLEAN] :
     /\ ~nav.navigated => nav.load = "fired" /\ nav.evaluated = "threw"
     /\ nav.evaluated = "threw" => ~nav.committed}

ToolNavigate ==
  /\ connSeq < MaxConns
  /\ \E d \in {Navigate(Here, w, url, nav) :
                w \in Worlds, url \in UrlSamples, nav \in NavWorlds} :
       Settle("chrome_navigate", d, d.threw)

\* chrome_wait: ms = Math.min(args.ms, 30000), which is NaN for NaN, then
\* ChromeClient.wait(ms), whose setTimeout runs 1 ms for a delay that is
\* NaN or below 1.
ToolWait ==
  \E asked \in WaitSamples :
    LET ms == IF asked.nan THEN asked ELSE [asked EXCEPT !.n = Min(asked.n, MaxWaitMs)]
        text == IF ms.nan THEN <<"NaN">>
                ELSE IF ms.n < 0 THEN <<"-">> \o Digits(-ms.n) ELSE Digits(ms.n)
    IN Settle("chrome_wait",
              Done(FALSE, <<"Waited ">> \o text \o <<"ms">>, Here,
                   [NoTrace EXCEPT !.asked = asked,
                                   !.waited = IF ms.nan \/ ms.n < 1 THEN 1 ELSE ms.n]),
              FALSE)

ToolCoding(name) ==
  \E how \in {"ok", "reported", "threw"} :
    /\ how = "reported" => ReportsFailure(name)
    /\ Settle(name,
              IF how = "threw" THEN Done(TRUE, <<"EACCES: permission denied">>, Here, NoTrace)
              ELSE IF how = "reported" THEN Done(FALSE, Reported(name), Here, NoTrace)
              ELSE Done(FALSE, Succeeded(name), Here, NoTrace),
              how # "ok")

\* The model calls a tool that executeTool has no case for.
ToolUnknown ==
  Settle("chrome_launch", Done(FALSE, <<>>, Here, NoTrace), TRUE)

\* The browser opens a tab; it lists it first or last.
OpenTab ==
  /\ Cardinality(everTabs) < MaxTabs
  /\ \E first \in BOOLEAN :
       tabs' = IF first THEN <<Cardinality(everTabs) + 1>> \o tabs
               ELSE Append(tabs, Cardinality(everTabs) + 1)
  /\ everTabs' = everTabs \cup {Cardinality(everTabs) + 1}
  /\ UNCHANGED <<client, currentTab, connSeq, lastOp, openConns, sessVars, cliVars,
                 domVars, memSaved>>

\* The browser closes a tab; the connections to it die.
CloseTab ==
  \E i \in 1..Len(tabs) :
    /\ tabs' = SubSeq(tabs, 1, i - 1) \o SubSeq(tabs, i + 1, Len(tabs))
    /\ client' = IF client.set /\ client.target = tabs[i]
                 THEN [client EXCEPT !.alive = FALSE] ELSE client
    /\ openConns' = {c \in openConns : c.target # tabs[i]}
    /\ UNCHANGED <<everTabs, currentTab, connSeq, lastOp, sessVars, cliVars, domVars, memSaved>>

\* The connection stops answering the liveness probe: its WebSocket has
\* closed (the browser restarted), or the socket is still open and the
\* command is answered with a protocol error (the renderer of the tab
\* crashed).
ConnectionDrops ==
  /\ client.set /\ client.alive
  /\ client' = [client EXCEPT !.alive = FALSE]
  /\ \E socketCloses \in BOOLEAN :
       openConns' = IF socketCloses THEN {c \in openConns : c.conn # client.conn}
                    ELSE openConns
  /\ UNCHANGED <<tabs, everTabs, currentTab, connSeq, lastOp, sessVars, cliVars, domVars, memSaved>>

ChromeNext ==
  \/ ToolListTabs
  \/ ToolAttach
  \/ \E name \in PageTools \ {"chrome_navigate"} : ToolPage(name)
  \/ ToolNavigate
  \/ ToolWait
  \/ \E name \in CodingTools : ToolCoding(name)
  \/ ToolUnknown
  \/ OpenTab
  \/ CloseTab
  \/ ConnectionDrops

SpecChrome == SessionInit /\ [][ChromeNext]_vars

\* C1: after a restart (a new Session with the same id) and load(),
\* allEntries() equals, in order and in content (role, content, timestamp,
\* metadata), the sequence of entries appended before the restart.
C1_RoundTrip == sessLoaded => entries = appended

\* C1, its case: a restarted session that has loaded entries holding
\* escaped characters and metadata.
C1_Witness ==
  /\ restarts > 0
  /\ sessLoaded
  /\ Len(entries) = MaxLog
  /\ \E i \in 1..Len(entries) :
       /\ entries[i].content = <<NEWLINE>>
       /\ entries[i].metadata = ToolMetadata(QUOTE)
  /\ \E i \in 1..Len(entries) : entries[i].content = <<BACKSLASH, "n">>
  /\ \E i \in 1..Len(entries) : entries[i].timestamp = ISO(MaxClock)

\* C3: the history handed to the model API is empty, or it starts with a
\* user block, ends with a model block, and no two adjacent blocks have the
\* same role.
C3_HistoryAlternates ==
  chat.live =>
    \/ chat.history = <<>>
    \/ /\ chat.history[1].role = "user"
       /\ Last(chat.history).role = "model"
       /\ \A i \in 1..(Len(chat.history) - 1) :
            chat.history[i].role # chat.history[i + 1].role

\* A log longer than the window whose history had same-role blocks to merge
\* and a trailing user block to drop.
C3_Witness ==
  /\ chat.live
  /\ Len(entries) > MaxEntries
  /\ Len(chat.history) = 2
  /\ Len(chat.history[1].parts) = 2
  /\ Last(entries).role = "tool_result"
  /\ Len(RecentEntries(entries)) = MaxEntries
  /\ RecentEntries(entries)[1].role = "user"

\* C2: the session log is append-only: at every step of the agent the
\* entries held before the step are a prefix of the entries held after it,
\* and so is the text of the log file.
C2_AppendOnly ==
  [][IsPrefix(entries, entries') /\ IsPrefix(logFile, logFile')]_vars

\* A resumed log that grew through a turn, an interrupt and a compaction.
C2_Witness ==
  /\ Len(entries) > Len(PriorEntries) + COMPACT_THRESHOLD
  /\ SubSeq(entries, 1, Len(PriorEntries)) = PriorEntries
  /\ \E i \in 1..Len(entries) :
       entries[i].content = <<"User interrupted the current task.">>
  /\ \E i \in 1..Len(entries) :
       /\ entries[i].role = "system"
       /\ StartsWith(entries[i].content, <<"Context compacted after ">>)
  /\ LoadedEntries(<<>>, logFile) = entries

\* The calls of sendToGemini that are in progress, and those that await a
\* tool.
InProgress == {t \in 1..MaxTurns : th[t].pc \notin {"idle", "done"}}

InTool == {t \in 1..MaxTurns : th[t].pc = "tool"}

\* C5: once the user has interrupted a turn while call k of a batch was
\* executing, no call after k of that batch executes and the results of the
\* batch are not sent to the model.
C5_InterruptCutsBatch ==
  \A t \in 1..MaxTurns :
    th[t].cut > 0 =>
      /\ ~(th[t].pc = "tool" /\ th[t].idx > th[t].cut)
      /\ ~(th[t].pc \in {"send", "sleep"}
           /\ th[t].req.kind \in {"results", "preCompact"})

\* C6: at most one tool action is in flight.
C6_OneToolInFlight == Cardinality(InTool) <= 1

\* C7: at most one user turn is in progress.
C7_OneTurnInProgress == Cardinality(InProgress) <= 1

\* C8: the continuation message of a compaction goes to a fresh, empty
\* conversation and contains the task text of the turn it continues and the
\* name of the tool executed last.
C8_ContinuationOfTheTurn ==
  \A t \in 1..MaxTurns :
    (th[t].pc = "send" /\ th[t].req.kind = "continuation") =>
      /\ th[t].req.fresh
      /\ Includes(th[t].req.msg, <<"Your original task: ">> \o th[t].task)
      /\ Includes(th[t].req.msg, <<QUOTE, Last(th[t].results).name, QUOTE>>)

\* C9: the wait of withRetry for an error that carries a retry delay of d
\* seconds is ceil(d) + 2 seconds.
C9_WaitIsCeilPlusTwo ==
  \A t \in 1..MaxTurns :
    (th[t].pc = "sleep" /\ th[t].req.delay >= 0) =>
      th[t].req.wait = MathCeil(th[t].req.delay) + 2

\* C4: executeTool never rejects: an exception of the action behind a
\* known tool is returned as the text "Tool error (<tool>): <message>", a
\* text the action returns, a failure it reports included, is returned as
\* it is, and an unknown tool is answered with "Unknown tool: <tool>".
C4_AlwaysResolves ==
  /\ ~lastOp.result.rejected
  /\ lastOp.name \in ToolNames /\ lastOp.done.threw =>
       lastOp.result.text
         = <<"Tool error (", lastOp.name, "): ">> \o lastOp.done.text
  /\ lastOp.name \in ToolNames /\ ~lastOp.done.threw =>
       lastOp.result.text = lastOp.done.text
  /\ lastOp.name # "" /\ lastOp.name \notin ToolNames =>
       lastOp.result.text = <<"Unknown tool: ", lastOp.name>>

\* A page action threw because the reconnection failed, and executeTool
\* returned the error as text.
C4_Witness ==
  /\ lastOp.name = "chrome_click"
  /\ lastOp.done.threw
  /\ lastOp.done.trace.probe = "failed"
  /\ StartsWith(lastOp.done.text, LostPrefix)
  /\ ~lastOp.result.rejected
  /\ StartsWith(lastOp.result.text, <<"Tool error (", "chrome_click">>)

\* C4 as stated: every failure of the action behind a tool is returned as a
\* text tagged with the name of the tool.
C4_FailureTagged ==
  lastOp.failed =>
    ~lastOp.result.rejected /\ Includes(lastOp.result.text, <<lastOp.name>>)

\* C10: when the liveness probe of an action fails while a tab is attached
\* and the refreshed tab list is not empty, the tab chosen for the
\* reconnection is the one with the id attached before if the list has it,
\* else the first of the list; once the connection to it is made, the
\* manager holds that connection and that tab and the action has run on it.
C10_ReconnectTarget ==
  LET t == lastOp.done.trace
      oldId == lastOp.before.currentTab.id
  IN (t.probe = "failed" /\ lastOp.before.currentTab.set /\ t.listed /\ t.list # <<>>) =>
       /\ t.target = (IF \E i \in 1..Len(t.list) : t.list[i] = oldId
                      THEN oldId ELSE t.list[1])
       /\ t.reconnected =>
            /\ lastOp.done.st.client.set
            /\ lastOp.done.st.client.target = t.target
            /\ lastOp.done.st.currentTab.set
            /\ lastOp.done.st.currentTab.id = t.target
            /\ t.ranOn = lastOp.done.st.client.conn
            /\ t.ranOn # lastOp.before.client.conn
            /\ lastOp.result.text # <<"Tool error (", lastOp.name, "): ">> \o LostPrefix

\* The probe failed, the tab attached before was listed second, and the
\* action ran on a new connection to it.
C10_Witness ==
  LET t == lastOp.done.trace IN
  /\ t.probe = "failed" /\ t.reconnected
  /\ Len(t.list) > 1
  /\ t.list[2] = lastOp.before.currentTab.id
  /\ t.target = lastOp.before.currentTab.id
  /\ lastOp.result.text = Succeeded(lastOp.name)

\* C11: a Ctrl+C less than two seconds after the one before it ends the
\* process in whatever state the CLI is (idle, sending, executing a tool,
\* interrupted), and a Ctrl+C that is not the second of such a pair does not.
C11_DoubleCtrlCExits ==
  [][env.sigints' # env.sigints =>
       (cli'.exited <=> sinceCtrlC < DoubleCtrlCSec)]_vars

\* The process was ended by the second Ctrl+C while a tool was executing in
\* a turn already interrupted.
C11_Witness == cli.exited /\ cli.interrupted /\ InTool # {}

C18_WaitIsCapped ==
  lastOp.name = "chrome_wait" =>
    LET t == lastOp.done.trace IN
    /\ t.waited <= MaxWaitMs
    /\ (~t.asked.nan /\ t.asked.n >= 1 /\ t.asked.n <= MaxWaitMs) => t.waited = t.asked.n

\* A wait of 45000 ms was asked for and the timer ran 30000 ms.
C18_Witness ==
  /\ lastOp.name = "chrome_wait"
  /\ lastOp.done.trace.asked = [nan |-> FALSE, n |-> 45000]
  /\ lastOp.done.trace.waited = MaxWaitMs
  /\ lastOp.result.text = <<"Waited ", "3", "0", "0", "0", "0", "ms">>

\* C15: at most one connection to the browser is open: when a connection
\* is made, by attach or by the reconnection of ensureConnected, the one
\* held before has been closed.
C15_OneOpenConnection == Cardinality(openConns) <= 1

\* C17: a turn does not end with the report of a rate-limit error of its
\* initial send or of a send of function results: when withRetry gives up
\* on such an error the recovery takes over (fresh conversation, cooldown,
\* continuation message) and nothing is logged.
C17_RecoveryAfterRetries ==
  \A i \in 1..Len(entries) :
    (/\ entries[i].role = "system"
     /\ \/ StartsWith(entries[i].content, <<"Tool result error: ">>)
        \/ StartsWith(entries[i].content, <<"Error: ">>))
    => ~IsRateLimit(entries[i].content)

C19_MemoryWindow ==
  /\ [](/\ Len(LoadRecent(memoryLog)) <= MAX_RECENT
        /\ LoadRecent(memoryLog) = SliceLast(memSaved, MAX_RECENT))
  /\ [][IsPrefix(memoryLog, memoryLog')]_vars

\* More entries were saved than the window holds: the first one is on disk
\* and is not returned.
C19_Witness ==
  /\ Len(memSaved) > MAX_RECENT
  /\ Len(LoadRecent(memoryLog)) = MAX_RECENT
  /\ memSaved[1] # memSaved[2]
  /\ LoadRecent(memoryLog)[1] = memSaved[Len(memSaved) - MAX_RECENT + 1]
  /\ IsPrefix(MemoryLine(memSaved[1].timestamp, memSaved[1].type, memSaved[1].task,
                         memSaved[1].summary),
              memoryLog)


\* C12: in click and in type, whenever the descriptor is a well-formed CSS
\* selector that matches at least one element, the resolved element is the
\* first element of the document that matches it and it is found by step 1,
\* also where the descriptor is contained in the text of another interactive
\* element.
C12_SelectorWins ==
  (/\ domOp.name \in {"click", "type"}
   /\ \E i \in 1..Len(page) : MatchesSelector(page[i], domOp.d))
  => /\ domOp.step = 1
     /\ domOp.el \in 1..Len(page)
     /\ MatchesSelector(page[domOp.el], domOp.d)
     /\ \A j \in 1..(domOp.el - 1) : ~MatchesSelector(page[j], domOp.d)

\* click("s") where <button>Yes</button> precedes the first <s>: the text of
\* the button contains the descriptor and the <s> element is clicked.
C12_Witness ==
  /\ domOp.name = "click"
  /\ domOp.d = <<"s">>
  /\ page[1].tag = <<"b", "u", "t", "t", "o", "n">>
  /\ Includes(ToLowerCase(page[1].text), domOp.d)
  /\ domOp.el = 2
  /\ page[2].tag = <<"s">>

\* C13: for a descriptor of click that matches no element as a selector, the
\* resolver selects an interactive element whose lowercased trimmed text,
\* aria-label or value equals or contains the lowercased descriptor, and only
\* where there is none falls back to the scan of all rendered elements for
\* the exact text.
C13_TextStepBeforeScan ==
  (/\ domOp.name = "click"
   /\ \A i \in 1..Len(page) : ~MatchesSelector(page[i], domOp.d))
  => LET s == Trim(ToLowerCase(domOp.d))
         Hit(a) == Trim(ToLowerCase(a)) = s \/ Includes(Trim(ToLowerCase(a)), s)
         interactive ==
           {i \in 1..Len(page) :
              /\ \/ page[i].tag \in {<<"a">>, <<"b", "u", "t", "t", "o", "n">>}
                 \/ page[i].role = <<"b", "u", "t", "t", "o", "n">>
                 \/ /\ page[i].tag = <<"i", "n", "p", "u", "t">>
                    /\ page[i].type \in {<<"s", "u", "b", "m", "i", "t">>,
                                        <<"b", "u", "t", "t", "o", "n">>}
              /\ Hit(page[i].text) \/ Hit(page[i].label) \/ Hit(page[i].value)}
     IN IF interactive # {}
        THEN domOp.step = 2 /\ domOp.el \in interactive
        ELSE \/ domOp.el = 0
             \/ /\ domOp.step = 3
                /\ page[domOp.el].rendered
                /\ Trim(ToLowerCase(page[domOp.el].text)) = s

\* C14: type on a plain input leaves the value of the input equal to the
\* typed text, and the input receives the input event and the change event
\* exactly once each.
C14_TypePlainInput ==
  (/\ domOp.name = "type"
   /\ domOp.el # 0
   /\ page[domOp.el].tag = <<"i", "n", "p", "u", "t">>
   /\ page[domOp.el].type \notin {<<"s", "u", "b", "m", "i", "t">>,
                                   <<"b", "u", "t", "t", "o", "n">>}
   /\ ~page[domOp.el].editable
   /\ page[domOp.el].role = <<>>)
  => /\ page[domOp.el].val = domOp.text
     /\ domOp.inputs = 1
     /\ domOp.changes = 1

\* C21: a compaction sends the results of the batch to the conversation
\* that is live, before anything else: the step that starts the send
\* replaces no conversation and records no memory.  Only when that send has
\* settled is the conversation replaced by a fresh, empty one; in the same
\* step exactly one memory entry, of type "compaction", is recorded and the
\* continuation message is sent to the new conversation.  No other step of
\* a running agent records a memory.
C21_CompactionOrder ==
  [][LET Continues(t) == /\ th'[t].pc = "send"
                         /\ th'[t].req.kind = "continuation"
                         /\ th[t].req.kind # "continuation"
         Grown == SubSeq(memoryLog', Len(memoryLog) + 1, Len(memoryLog'))
     IN /\ \A t \in 1..MaxTurns :
             /\ (th'[t].req.kind = "preCompact" /\ th[t].req.kind # "preCompact") =>
                  /\ th'[t].pc = "send"
                  /\ chat' = chat /\ chat.live
                  /\ th'[t].req.chatId = chat.id
                  /\ memoryLog' = memoryLog
             /\ Continues(t) =>
                  /\ th[t].pc \in {"send", "sleep"}
                  /\ th[t].req.kind = "preCompact"
                  /\ th[t].req.chatId = chat.id
                  /\ chat'.live /\ chat'.id # chat.id
                  /\ chat'.history = <<>> /\ chat'.sent = 0
                  /\ th'[t].req.chatId = chat'.id
                  /\ IsPrefix(memoryLog, memoryLog')
                  /\ Grown # <<>> /\ Last(Grown) = NEWLINE
                  /\ ParseMemory(SubSeq(Grown, 1, Len(Grown) - 1)).ok
                  /\ ParseMemory(SubSeq(Grown, 1, Len(Grown) - 1)).entry.type = "compaction"
        /\ (memoryLog' # memoryLog /\ ~cli'.exited) =>
             \E t \in 1..MaxTurns : Continues(t)]_vars

\* The continuation message is in flight to the fresh conversation, and the
\* last memory is the one of the compaction.
C21_Witness ==
  \E t \in 1..MaxTurns :
    /\ th[t].pc = "send"
    /\ th[t].req.kind = "continuation"
    /\ th[t].req.fresh
    /\ chat.id = th[t].req.chatId
    /\ LoadRecent(memoryLog) # <<>>
    /\ Last(LoadRecent(memoryLog)).type = "compaction"

\* C22: whenever function results are sent on the normal path the tool-call
\* counter is below COMPACT_THRESHOLD and equals the number of tool calls
\* the turn has executed since it started or since it last reset the
\* conversation; the counter is 0 right after the start of a turn, after a
\* compaction and after the reset of the rate-limit recovery.
C22_CounterCountsToolCalls ==
  [][/\ \A t \in 1..MaxTurns :
          (th'[t].pc = "send" /\ th'[t].req.kind = "results"
           /\ th[t].req.kind # "results") =>
            /\ cli'.toolCallCount < COMPACT_THRESHOLD
            /\ cli'.toolCallCount = th'[t].ran
     /\ env'.turns # env.turns => cli'.toolCallCount = 0
     /\ \A t \in 1..MaxTurns :
          (\/ th'[t].req.kind = "continuation" /\ th[t].req.kind # "continuation"
           \/ th'[t].pc = "cooldown" /\ th[t].pc # "cooldown")
          => cli'.toolCallCount = 0]_vars

\* C23: when the first send of a turn is rethrown with a protocol or
\* history error, the chat is replaced by one initialized from the session
\* log, whose history does not end with a user block (the user message of
\* the turn is not in it as a trailing block), and the same message is sent
\* to it.  This happens once in a turn: a turn makes no first send again,
\* the resend is replaced by no other resend, and the report of a protocol
\* error in the log comes from the failure of the resend.
C23_ReinitializeOnce ==
  [][\A t \in 1..MaxTurns :
       /\ (th'[t].req.kind = "initialRetry" /\ th[t].req.kind # "initialRetry") =>
            /\ th[t].pc = "send" /\ th[t].req.kind = "initial"
            /\ th'[t].pc = "send" /\ th'[t].req.attempt = 0
            /\ th'[t].req.msg = th[t].req.msg
            /\ th'[t].req.msg = ContextPrefix \o th[t].task
            /\ chat'.live /\ chat'.id # chat.id /\ chat'.sent = 0
            /\ th'[t].req.chatId = chat'.id
            /\ chat'.history = ToGeminiHistory(entries)
            /\ chat'.history # <<>> => Last(chat'.history).role # "user"
       /\ (th'[t].req.kind = "initial" /\ th[t].req.kind # "initial") =>
            th[t].pc = "idle"
       /\ (th[t].req.kind = "initialRetry" /\ th'[t] # th[t]) =>
            \/ /\ th'[t].req.kind = "initialRetry"
               /\ th'[t].req.msg = th[t].req.msg
               /\ th'[t].req.attempt >= th[t].req.attempt
            \/ th'[t].req.kind = "none"
       /\ (/\ th[t].req.kind = "initial" /\ th'[t] # th[t]
           /\ Len(entries') > Len(entries)
           /\ Last(entries').role = "system")
          => ~(\/ Includes(Last(entries').content, SInvalidArgument)
               \/ Includes(Last(entries').content, SHistory))]_vars

\* The resend has failed with a protocol error too: the turn has ended with
\* the report of the error, in the chat that was initialized for the resend.
C23_Witness ==
  \E t \in 1..MaxTurns :
    /\ th[t].pc = "done"
    /\ entries # <<>>
    /\ Last(entries).role = "system"
    /\ Last(entries).content = <<"Error: ">> \o SInvalidArgument
    /\ chat.id > 1 /\ chat.sent = 0

\* C24: while the interrupt flag is set, no call of sendToGemini starts a
\* request to the model: no first attempt of a send and no attempt that
\* follows a wait of withRetry.
C24_NoRequestOnceInterrupted ==
  [][\A t \in 1..MaxTurns :
       (/\ cli.interrupted
        /\ env'.turns = env.turns
        /\ th'[t].pc = "send"
        /\ th[t].pc # "send" \/ th'[t].req # th[t].req)
       => FALSE]_vars

\* C25: a tool action that was executing when the user interrupted the turn
\* is not aborted: the call of sendToGemini leaves it only when it returns,
\* its tool_result entry is then appended to the session log, after its
\* tool_call entry, and the turn ends without sending the result to the
\* model.
C25_InFlightToolCompletes ==
  [][\A t \in 1..MaxTurns :
       (/\ th[t].pc = "tool"
        /\ th[t].cut = th[t].idx
        /\ th'[t].pc # "tool" \/ th'[t].idx # th[t].idx)
       => LET call == th[t].calls[th[t].idx]
              n == Len(entries)
          IN /\ Len(entries') > n
             /\ entries'[n + 1].role = "tool_result"
             /\ entries'[n + 1].metadata = ToolMetadata(call.name)
             /\ \E i \in 1..n : /\ entries[i].role = "tool_call"
                                /\ entries[i].content = ToolCallJson(call)
             /\ th'[t].pc = "done"]_vars

\* C26: when the liveness probe of a page action fails and the reconnection
\* to the recorded tab fails (listing the tabs fails, the list is empty,
\* the connection is not made or its domains are not enabled), the
\* ChromeClient is left without client and without current tab, the action
\* throws the error that tells that the connection was lost, and the action
\* itself has run on no connection.
C26_ReconnectFailureDetaches ==
  LET t == lastOp.done.trace IN
  (/\ lastOp.name \in PageTools
   /\ t.probe = "failed"
   /\ lastOp.before.currentTab.set
   /\ ~t.reconnected)
  => /\ lastOp.done.threw
     /\ StartsWith(lastOp.done.text, LostPrefix)
     /\ lastOp.result.text = <<"Tool error (", lastOp.name, "): ">> \o lastOp.done.text
     /\ lastOp.done.st.client = NoClient
     /\ lastOp.done.st.currentTab = NoTab
     /\ t.ranOn = 0
     /\ t.opened = 0

\* A click found the connection dead and no tab in the refreshed list: the
\* ChromeClient is detached.
C26_Witness ==
  /\ lastOp.name = "chrome_click"
  /\ lastOp.done.trace.probe = "failed"
  /\ lastOp.before.currentTab.set
  /\ lastOp.done.trace.listed /\ lastOp.done.trace.list = <<>>
  /\ lastOp.done.text = LostPrefix \o <<"Tab no longer exists">>
  /\ client = NoClient /\ currentTab = NoTab

\* C27: when the liveness probe of ensureConnected succeeds, the client
\* (the connection, the domains enabled on it, the dialog handlers installed
\* on it) and the current tab are those of before the call, no connection
\* is opened or closed, and the action runs on the client held before;
\* this for every action that starts with ensureConnected and in every
\* state it is called in, the state a previous call left included.
C27_ProbeOkChangesNothing ==
  LET t == lastOp.done.trace IN
  (lastOp.name \in PageTools /\ t.probe = "ok") =>
    /\ lastOp.done.st.client = lastOp.before.client
    /\ lastOp.done.st.connSeq = lastOp.before.connSeq
    /\ lastOp.done.st.currentTab.set = lastOp.before.currentTab.set
    /\ lastOp.done.st.currentTab.id = lastOp.before.currentTab.id
    /\ lastOp.name # "chrome_navigate" =>
         lastOp.done.st.currentTab = lastOp.before.currentTab
    /\ t.opened = 0 /\ t.closed = 0 /\ ~t.listed /\ ~t.reconnected
    /\ t.ranOn = lastOp.before.client.conn

\* A key press found the connection alive, on a client that an earlier
\* reconnection had made: the client is still that one, with its single
\* dialog handler.
C27_Witness ==
  /\ lastOp.name = "chrome_press_key"
  /\ lastOp.done.trace.probe = "ok"
  /\ ~lastOp.done.threw
  /\ client = lastOp.before.client
  /\ client.conn = 2 /\ client.alive
  /\ client.handlers = 1
  /\ Cardinality(openConns) = 1

\* C28: whenever a current tab is recorded there is a client, it is a
\* connection to that tab, the Page, Runtime and DOM domains have been
\* enabled on it and one dialog handler is installed on it.
C28_AttachedIsEnabled ==
  currentTab.set =>
    /\ client.set
    /\ client.target = currentTab.id
    /\ client.domains = {"Page", "Runtime", "DOM"}
    /\ client.handlers = 1

\* A tab is attached on the third connection, made by a reconnection.
C28_Witness ==
  /\ currentTab.set
  /\ client.conn = 3
  /\ lastOp.done.trace.reconnected
  /\ client.domains = {"Page", "Runtime", "DOM"}
  /\ client.handlers = 1

\* C29: an attach whose tab cannot be resolved (the tabs cannot be listed,
\* the list is empty, the index is outside the list, no tab has the id)
\* throws and leaves the ChromeClient as it was: same client, same current
\* tab, no connection closed or opened.
C29_UnresolvedAttachKeeps ==
  LET t == lastOp.done.trace IN
  (/\ lastOp.name = "chrome_attach"
   /\ \/ ~t.listed
      \/ t.list = <<>>
      \/ t.tab.num /\ t.tab.v + 1 > Len(t.list)
      \/ ~t.tab.num /\ \A i \in 1..Len(t.list) : t.list[i] # t.tab.v)
  => /\ lastOp.done.threw
     /\ lastOp.done.st = lastOp.before
     /\ t.closed = 0 /\ t.opened = 0

\* With a tab attached and alive, an attach to the id of a tab that is not
\* open failed: the attachment is the one of before.
C29_Witness ==
  /\ lastOp.name = "chrome_attach"
  /\ ~lastOp.done.trace.tab.num
  /\ lastOp.done.trace.list # <<>>
  /\ lastOp.done.text = <<"Tab not found. Available tabs:">>
  /\ lastOp.before.currentTab.set /\ lastOp.before.client.alive
  /\ client = lastOp.before.client /\ currentTab = lastOp.before.currentTab
  /\ \E c \in openConns : c.conn = client.conn

\* C30: the wait of navigate for the load event is advisory: when no load
\* event fires within the 15 s, navigate goes on to the evaluation of title
\* and url as it does after a load event.  If that evaluation is answered
\* the call returns "Navigated to: " and the url, and the cached tab has
\* the title and url read from the page and the id and the client it had;
\* if it is not (the connection was lost during the navigation) the call
\* throws its error and the cached tab is unchanged.
C30_LoadWaitIsAdvisory ==
  LET t == lastOp.done.trace
      ran == IF t.reconnected THEN TabInfo(t.target) ELSE lastOp.before.currentTab
  IN (lastOp.name = "chrome_navigate" /\ t.load = "timeout") =>
       /\ lastOp.done.threw <=> t.evaluated = "threw"
       /\ lastOp.done.st.currentTab.id = ran.id
       /\ lastOp.done.st.client.conn = t.ranOn
       /\ lastOp.done.threw => lastOp.done.st.currentTab = ran
       /\ ~lastOp.done.threw =>
            /\ StartsWith(lastOp.done.text, <<"Navigated to: ">>)
            /\ lastOp.result.text = lastOp.done.text
            /\ ~lastOp.failed
            /\ lastOp.done.st.currentTab.url \in {ran.url, Tail(lastOp.done.text)}

\* No load event fired, and the cached tab has the url of the new page.
C30_Witness ==
  /\ lastOp.name = "chrome_navigate"
  /\ lastOp.done.trace.load = "timeout"
  /\ lastOp.result.text = <<"Navigated to: ", "https://", "a.io">>
  /\ lastOp.before.currentTab.url = <<"about:blank">>
  /\ currentTab.url = <<"https://", "a.io">>
  /\ currentTab.id = lastOp.before.currentTab.id

\* C30 as stated: whenever no load event fires within the 15 s the call
\* succeeds and returns "Navigated to".
C30_TimeoutSucceeds ==
  (lastOp.name = "chrome_navigate" /\ lastOp.done.trace.load = "timeout") =>
    /\ ~lastOp.done.threw
    /\ StartsWith(lastOp.done.text, <<"Navigated to: ">>)
    /\ lastOp.done.st.currentTab.id = lastOp.before.currentTab.id

\* C33: the history handed to the model is built from the whole log when
\* it has at most contextTurns * 2 entries, and else from the
\* contextTurns * 2 most recent entries and the first entry if it is a
\* system entry; and the content of that first system entry, when it is
\* kept for a longer log, is in the history.
C33_WindowCarriesFirstSystem ==
  chat.live =>
    LET n == Len(entries)
        M == ContextTurns * 2
        InWindow(i) ==
          n <= M \/ i > n - M \/ (i = 1 /\ entries[1].role = "system")
    IN /\ \A b \in 1..Len(chat.history) :
            \A p \in 1..Len(chat.history[b].parts) :
              \E i \in 1..n :
                InWindow(i) /\ Last(chat.history[b].parts[p]) = Last(entries[i].content)
       /\ (n > M /\ entries[1].role = "system") =>
            \E b \in 1..Len(chat.history) :
              \E p \in 1..Len(chat.history[b].parts) :
                Includes(chat.history[b].parts[p], entries[1].content)

\* C34: the parts of the blocks of the history, one after the other and
\* each with the role of its block, are the entries of the window that are
\* not system entries, in the order of the log, a user or tool_result entry
\* as a user part and a model or tool_call entry as a model part, from the
\* first user part to the last model part.
C34_MergeLosesNothing ==
  chat.live =>
    LET window == RecentEntries(entries)
        used == SelectSeq(window, LAMBDA e : e.role # "system")
        PartOf(e) ==
          CASE e.role = "user" -> [role |-> "user", text |-> e.content]
            [] e.role = "tool_result" ->
                 [role |-> "user", text |-> <<"[Tool Result] ">> \o e.content]
            [] e.role = "model" -> [role |-> "model", text |-> e.content]
            [] OTHER -> [role |-> "model", text |-> <<"[Tool Call] ">> \o e.content]
        mapped == [i \in 1..Len(used) |-> PartOf(used[i])]
        users == {i \in 1..Len(mapped) : mapped[i].role = "user"}
        lo == IF users = {} THEN Len(mapped) + 1
              ELSE CHOOSE i \in users : \A j \in users : i <= j
        models == {i \in lo..Len(mapped) : mapped[i].role = "model"}
        hi == IF models = {} THEN 0
              ELSE CHOOSE i \in models : \A j \in models : i >= j
        expected == IF hi = 0 THEN <<>> ELSE SubSeq(mapped, lo, hi)
        PartsOf(b) == [p \in 1..Len(b.parts) |-> [role |-> b.role, text |-> b.parts[p]]]
        RECURSIVE Flat(_)
        Flat(h) == IF h = <<>> THEN <<>> ELSE PartsOf(Head(h)) \o Flat(Tail(h))
    IN Flat(chat.history) = expected

\* A log of five entries that starts with a system entry and a tool call:
\* the tool call is dropped, the user entry and the tool result make one
\* block of two parts, the model entry the block that ends the history.
C34_Witness ==
  /\ chat.live
  /\ Len(entries) = 5
  /\ entries[1].role = "system" /\ entries[2].role = "tool_call"
  /\ Len(chat.history) = 2
  /\ chat.history[1] = [role |-> "user", parts |-> <<(<<"3">>), <<"[Tool Result] ", "4">>>>]
  /\ chat.history[2] = [role |-> "model", parts |-> <<(<<"5">>)>>]

\* C31: when the model API answers with neither function calls nor text
\* and the turn ends with that answer, actions of the turn being tracked
\* and the turn not interrupted, the user is shown the summary
\* "Done. Here's what I did:" of the last completed actions, five at most.
C31_SummaryWhenNoText ==
  [][\A t \in 1..MaxTurns :
       (/\ th[t].pc = "send" /\ th'[t].pc = "done"
        /\ env'.reply.turn = t
        /\ env'.reply.result.candidates
        /\ env'.reply.result.calls = <<>>
        /\ env'.reply.result.texts = <<>>
        /\ cli.completedActions # <<>>
        /\ ~cli.interrupted)
       => th'[t].summary =
            <<"Done. Here's what I did:", NEWLINE, "  - ">>
            \o Join(SliceLast(cli.completedActions, 5), <<NEWLINE, "  - ">>)]_vars

\* C32: the session log gets the user message when a turn starts, the text
\* of every answer of the model that the turn takes up, be it a final text
\* or the text that comes with function calls, each tool call when its
\* execution starts and each tool result when it has returned.
C32_EveryEventLogged ==
  [][\A t \in 1..MaxTurns :
       LET new == SubSeq(entries', Len(entries) + 1, Len(entries'))
           Has(role, content) ==
             \E i \in 1..Len(new) : new[i].role = role /\ new[i].content = content
       IN /\ (th[t].pc = "idle" /\ th'[t].pc # "idle") => Has("user", th'[t].task)
          /\ (/\ th[t].pc = "send" /\ th'[t] # th[t]
              /\ th[t].req.kind # "preCompact"
              /\ ~cli.interrupted
              /\ env'.reply.turn = t
              /\ env'.reply.result.texts # <<>>)
             => Has("model", Join(env'.reply.result.texts, <<NEWLINE>>))
          /\ (/\ th'[t].pc = "tool"
              /\ th[t].pc # "tool" \/ th'[t].idx # th[t].idx)
             => Has("tool_call", ToolCallJson(th'[t].calls[th'[t].idx]))
          /\ (/\ th[t].pc = "tool"
              /\ th'[t].pc # "tool" \/ th'[t].idx # th[t].idx)
             => \E i \in 1..Len(new) :
                  /\ new[i].role = "tool_result"
                  /\ new[i].metadata = ToolMetadata(th[t].calls[th[t].idx].name)
                  /\ i = 1]_vars

\* C35: a tool call whose result is an error, a text that starts with
\* ERROR or a "Tool error" text of executeTool, adds nothing to the
\* completed actions.
C35_OnlySuccessfulActionsTracked ==
  [][\A t \in 1..MaxTurns :
       (/\ th[t].pc = "tool"
        /\ th'[t].pc # "tool" \/ th'[t].idx # th[t].idx
        /\ LET result == entries'[Len(entries) + 1].content IN
           StartsWith(result, <<"ERROR">>) \/ StartsWith(result, <<"Tool error (">>))
       => cli'.completedActions = cli.completedActions]_vars

\* C36: when the process has exited after a user turn, the last entry of
\* the memory file is a session_end entry with the last task.
C36_SessionEndSaved ==
  (cli.exited /\ cli.lastUserMessage # <<>>) =>
    LET memories == LoadRecent(memoryLog) IN
    /\ memories # <<>>
    /\ Last(memories).type = "session_end"
    /\ Last(memories).task = SliceTo(cli.lastUserMessage, 200)

\* C37: while a call of sendToGemini that was interrupted is still running,
\* the interrupt flag and the processing flag stay set.
C37_InterruptIsSticky ==
  [][\A t \in 1..MaxTurns :
       (/\ cli.interrupted /\ cli.processing
        /\ th[t].pc \notin {"idle", "done"}
        /\ th'[t].pc \notin {"idle", "done"})
       => cli'.interrupted /\ cli'.processing]_vars

\* C39: a call of sendToGemini enters the rate-limit recovery (fresh
\* conversation, cooldown, recovery message) only from its first send, once:
\* from the recovery it goes nowhere but to its return, and the step that
\* ends it, whether the recovery message was answered or failed, calls
\* prompt, which clears the processing flag and asks for the next input.
C39_RecoveryOnce ==
  [][\A t \in 1..MaxTurns :
       /\ (th'[t].pc = "cooldown" /\ th[t].pc # "cooldown") =>
            /\ ~th[t].inRecovery
            /\ th[t].req.kind \in {"initial", "initialRetry"}
       /\ (th[t].pc = "cooldown" /\ th'[t] # th[t]) =>
            /\ th'[t].inRecovery
            /\ th'[t].pc = "send" /\ th'[t].req.kind = "recovery"
       /\ (th[t].inRecovery /\ th'[t] # th[t]) =>
            \/ th'[t].inRecovery /\ th'[t].pc \in {"send", "sleep", "tool"}
            \/ /\ th'[t].pc = "done"
               /\ cli'.question /\ ~cli'.processing
       /\ th[t].pc = "done" => th'[t] = th[t]]_vars

\* The recovery message of a turn has failed, after a wait of withRetry,
\* and the turn has returned to the prompt with nothing logged for it.
C39_Witness ==
  \E t \in 1..MaxTurns :
    /\ th[t].pc = "done"
    /\ env.reply = [turn |-> t, result |-> Rejected]
    /\ chat.id > 1 /\ chat.history = <<>> /\ chat.sent = 0
    /\ cli.question /\ ~cli.processing
    /\ Last(entries).role = "user"
    /\ env.plan = "faults"

\* C40: in the session log every tool_call entry that is not the last
\* entry is followed by a tool_result entry whose metadata names the tool
\* of the call.
C40_ResultFollowsCall ==
  \A i \in 1..(Len(entries) - 1) :
    entries[i].role = "tool_call" =>
      /\ entries[i + 1].role = "tool_result"
      /\ \E n \in 1..COMPACT_THRESHOLD :
           /\ entries[i].content = ToolCallJson(Batch(COMPACT_THRESHOLD)[n])
           /\ entries[i + 1].metadata = ToolMetadata(Batch(COMPACT_THRESHOLD)[n].name)

\* C38: the ChromeClient holds a client exactly when it holds a current
\* tab: isConnected() = (getTabInfo() # null).
C38_ClientAndTabTogether == client.set <=> currentTab.set
====
